---- MODULE Spec2Model ----
(***************************************************************************)
(* Model of the orchestration core of ProjectLodestar:                     *)
(*   modules/orchestrator/executor.py    (ExecutionState, StepExecutor)    *)
(*   modules/orchestrator/decomposer.py  (Step, Playbook, TaskDecomposer)  *)
(*   modules/orchestrator/synthesizer.py (ResultSynthesizer)               *)
(*   modules/orchestrator/state.py       (OrchestrationStateStore)         *)
(*   modules/orchestrator/core.py        (OrchestratorEngine)              *)
(*   modules/orchestrator/tools/base.py  (Tool, ToolResult)                *)
(*   modules/orchestrator/tools/         (ScriptTool, FileTool, LLMTool)   *)
(*   modules/routing/fallback.py         (FallbackExecutor)                *)
(*                                                                         *)
(* Providers (tools) are black boxes: what can_handle, estimate_cost and   *)
(* execute answer for a task is chosen nondeterministically when the       *)
(* scheduler calls them; each of the three may also raise.  A provider     *)
(* reads the context it is handed and does not write to it (none of the    *)
(* built-in tools does).  Costs are counted in whole cost units.           *)
(*                                                                         *)
(* Specifications of one call of StepExecutor.execute_all, all over the    *)
(* same actions:                                                           *)
(*   Spec        every step list; results without artifacts or cost        *)
(*   SpecBehaved Spec without exceptions of can_handle / estimate_cost     *)
(*   SpecData    step lists named in order; results with artifacts         *)
(*   SpecCost    step lists named in order; results with costs             *)
(*   SpecSelect  short step lists; the providers' answers are kept         *)
(* Specifications of an engine, whose run() decomposes a request, calls    *)
(* execute_all, synthesizes a result and records the run in the ledger:    *)
(*   SpecRun     one run() on any short playbook, or on none               *)
(*   SpecSummary one run() with results that carry artifacts and costs     *)
(*   SpecLedger  up to MaxLedgerRuns runs without a playbook               *)
(*   SpecCopy    callers of decompose / build_synthesis_step that modify   *)
(*               the steps they were handed                                *)
(*   SpecStore   one run() whose ledger calls may raise                    *)
(*   SpecOverlap run() calls that overlap in time on one engine            *)
(* Specifications of the built-in providers:                               *)
(*   SpecBuiltin execute_all over the providers start() registers          *)
(*   SpecLLM     execute_all with LLMTool over the fallback chain          *)
(*   SpecFile    FileTool calls on a directory tree                        *)
(***************************************************************************)
EXTENDS Integers, Sequences, FiniteSets, TLC

\* ------------------------------------------------------------------------
\* Bounds of the model
\* ------------------------------------------------------------------------
MaxSteps == 3
MaxTools == 2
MaxCost == 1
MaxEst == 1
MaxSelectSteps == 2
MaxPlaybookSteps == 2
MaxCalls == 2
MaxLedgerRuns == 11
MaxFileOps == 3
MaxCallers == 2
MaxCallSteps == 2

\* Step names a playbook may use; DepNames are the names depends_on may cite.
\* A dependency on "B" in a list with no step named "B" is an unresolvable
\* dependency; two steps may carry the same name (nothing in _parse_step
\* or execute_all rejects that).
Names == {"A", "B", "C"}
DepNames == {"A", "B"}
ArtifactKeys == {"k1", "k2"}

\* Capability tag written in the playbook for each step name.
CapabilityOf == [n \in Names |->
                   IF n = "A" THEN "general"
                   ELSE IF n = "B" THEN "code_generation" ELSE "file_write"]

\* ------------------------------------------------------------------------
\* Data model
\* ------------------------------------------------------------------------
\* decomposer.Step, reduced to the fields the scheduler reads.
Step == [name : Names, depends_on : SUBSET DepNames,
         capability : {CapabilityOf[n] : n \in Names}]

PlaybookSteps == {s \in Step : s.capability = CapabilityOf[s.name]}

\* The step lists handed to execute_all: any names (repeated or not), any
\* dependencies (resolvable or not, cyclic or not).
StepLists == UNION {[1..n -> PlaybookSteps] : n \in 1..MaxSteps}

\* Step lists whose i-th step carries the i-th name of NameOrder (taken
\* cyclically), so that names are pairwise distinct as long as the list is
\* no longer than NameOrder.
NameOrder == <<"A", "B", "C">>
NameAt(i) == NameOrder[((i - 1) % Len(NameOrder)) + 1]
DistinctStepLists ==
  {l \in StepLists : \A i \in DOMAIN l : l[i].name = NameAt(i)}

NoArtifacts == [k \in {} |-> 0]

\* Error texts, as tuples of their parts; <<>> stands for None.
BlockedError ==
  <<"Blocked: dependencies failed or circular dependency detected">>
\* A slip of the message: it names the default capability, not the step's.
NoToolError_Default(cap) == <<"No tool available for capability", "general">>
NoToolError(cap) == <<"No tool available for capability", cap>>
ToolError == <<"error text of the ToolResult">>
ExcText == <<"str(exc)">>
NoError == <<>>

\* executor.StepOutcome (output and duration_ms carry no scheduling state).
StepOutcome(name, success, artifacts, cost, error) ==
  [step_name |-> name, success |-> success, artifacts |-> artifacts,
   cost |-> cost, error |-> error]

\* tools.base.ToolResult
ToolResult(success, artifacts, cost, error) ==
  [success |-> success, artifacts |-> artifacts, cost |-> cost, error |-> error]

VARIABLES
  steps,        \* the argument of execute_all
  nTools,       \* len(self._tools): providers registered before the run
  pc,           \* position in execute_all
  remaining,    \* local list `remaining`
  ready,        \* the part of `ready` the for loop has not reached yet
  current,      \* the step the for loop is handling
  step_index,   \* local counter step_index
  total,        \* local total
  context, outcomes, total_cost, completed, failed,   \* ExecutionState
  startCalls,   \* calls received by on_step_start
  selection,    \* locals of the last _execute_step: providers' answers, tool
  invocations   \* calls of tool.execute: step, tool, context passed

\* OrchestratorEngine and the objects it owns
VARIABLES
  synthesis_tool, \* self._synthesis_tool is not None (set by start())
  runs,           \* number of calls of run() so far
  request,        \* argument `request` of the current run()
  playbook,       \* local `playbook` of run(): the playbook resolved, or None
  run_id,         \* local run_id of run()
  ledger,         \* rows of table orchestration_runs, in insertion order
  synthCall,      \* the call of the synthesis provider made by this run()
  run_result      \* local `result` of run(): what the last run() returned

\* TaskDecomposer and the objects it hands out
VARIABLES
  heap,           \* the mutable objects (Step, list, dict); a reference is
                  \* the index of its object
  cache,          \* the Playbook held by self._cache, or None
  handed          \* references returned by decompose/build_synthesis_step
                  \* calls, one entry per call

\* The directory tree the FileTool works on
VARIABLES
  disk,           \* the files (path -> text stored) and the directories
  fileLog         \* the FileTool calls made: their number, the last call
                  \* with its result, the paths written and not deleted

\* Callers of run() that overlap in time on one engine
VARIABLES
  calls,             \* per caller: position in run(), its steps, its index
  progress_callback, \* self._progress_callback: the caller whose callback
                     \* is stored, 0 for None
  delivered          \* per caller: the start events its callback received

runVars == <<synthesis_tool, runs, request, playbook, run_id, ledger,
             synthCall, run_result>>
decomposerVars == <<heap, cache, handed>>
fileVars == <<disk, fileLog>>
callerVars == <<calls, progress_callback, delivered>>
engineVars == <<runVars, decomposerVars, fileVars, callerVars>>

vars == <<steps, nTools, pc, remaining, ready, current, step_index, total,
          context, outcomes, total_cost, completed, failed,
          startCalls, selection, invocations, engineVars>>

\* None, and an optional value: <<>> for None, <<v>> for the value v.
None == <<>>
Some(v) == <<v>>

\* The directory tree before any FileTool call: the root and, in it, the
\* base directory of the tool, with nothing inside.  A path is the tuple of
\* its components from the root.
Root == <<>>
BaseDir == <<"base">>
EmptyDisk == [files |-> [p \in {} |-> <<>>], dirs |-> {Root, BaseDir}]
NoFileCalls == [count |-> 0, last |-> None, written |-> {}]
FilesUntouched == disk = EmptyDisk /\ fileLog = NoFileCalls

\* No caller has entered run(): __init__ sets self._progress_callback = None.
NoCallers ==
  calls = <<>> /\ progress_callback = 0 /\ delivered = <<>>

\* ------------------------------------------------------------------------
\* Helpers
\* ------------------------------------------------------------------------
\* A slip of dict.update: setdefault semantics, an existing key is kept.
Update_KeepOld(d, other) ==
  [k \in (DOMAIN d) \cup (DOMAIN other) |->
     IF k \in DOMAIN d THEN d[k] ELSE other[k]]

\* dict.update(other)
Update(d, other) ==
  [k \in (DOMAIN d) \cup (DOMAIN other) |->
     IF k \in DOMAIN other THEN other[k] ELSE d[k]]

\* list.remove(x): drops the first element equal to x.
RECURSIVE Remove(_, _)
Remove(s, x) ==
  IF s = <<>> THEN <<>>
  ELSE IF Head(s) = x THEN Tail(s)
  ELSE <<Head(s)>> \o Remove(Tail(s), x)

RECURSIVE SumCost(_)
SumCost(os) == IF os = <<>> THEN 0 ELSE os[1].cost + SumCost(Tail(os))

\* ExecutionState as a record, so that record() is a function on it.
State == [context |-> context, outcomes |-> outcomes,
          total_cost |-> total_cost, completed |-> completed,
          failed |-> failed]

\* A slip of record: the artifacts are merged whatever the outcome.
Record_MergeAlways(st, outcome) ==
  [context    |-> Update(st.context, outcome.artifacts),
   outcomes   |-> Append(st.outcomes, outcome),
   total_cost |-> st.total_cost + outcome.cost,
   completed  |-> IF outcome.success
                    THEN st.completed \cup {outcome.step_name}
                    ELSE st.completed,
   failed     |-> IF outcome.success
                    THEN st.failed
                    ELSE st.failed \cup {outcome.step_name}]

\* A slip of record: the cost is added in the success branch only.
Record_CostOnSuccess(st, outcome) ==
  [context    |-> IF outcome.success
                    THEN Update(st.context, outcome.artifacts)
                    ELSE st.context,
   outcomes   |-> Append(st.outcomes, outcome),
   total_cost |-> IF outcome.success
                    THEN st.total_cost + outcome.cost
                    ELSE st.total_cost,
   completed  |-> IF outcome.success
                    THEN st.completed \cup {outcome.step_name}
                    ELSE st.completed,
   failed     |-> IF outcome.success
                    THEN st.failed
                    ELSE st.failed \cup {outcome.step_name}]

\* ExecutionState.record
Record(st, outcome) ==
  [context    |-> IF outcome.success
                    THEN Update(st.context, outcome.artifacts)
                    ELSE st.context,
   outcomes   |-> Append(st.outcomes, outcome),
   total_cost |-> st.total_cost + outcome.cost,
   completed  |-> IF outcome.success
                    THEN st.completed \cup {outcome.step_name}
                    ELSE st.completed,
   failed     |-> IF outcome.success
                    THEN st.failed
                    ELSE st.failed \cup {outcome.step_name}]

SetState(st) ==
  /\ context' = st.context
  /\ outcomes' = st.outcomes
  /\ total_cost' = st.total_cost
  /\ completed' = st.completed
  /\ failed' = st.failed

\* The test of StepExecutor._find_ready for one step.
IsReady(step, done, bad) ==
  /\ \A dep \in step.depends_on : dep \in done
  /\ ~ \E dep \in step.depends_on : dep \in bad

\* StepExecutor._find_ready
RECURSIVE FindReady(_, _, _)
FindReady(ss, done, bad) ==
  IF ss = <<>> THEN <<>>
  ELSE (IF IsReady(Head(ss), done, bad) THEN <<Head(ss)>> ELSE <<>>)
         \o FindReady(Tail(ss), done, bad)

\* A slip of the fold: <= instead of <, the last minimal element wins.
RECURSIVE MinBy_LastWins(_, _, _)
MinBy_LastWins(best, rest, est) ==
  IF rest = <<>> THEN best
  ELSE MinBy_LastWins(
         IF est[Head(rest)] <= est[best] THEN Head(rest) ELSE best,
         Tail(rest), est)

\* The fold of Python's min(capable, key=...): the first minimal element.
RECURSIVE MinBy(_, _, _)
MinBy(best, rest, est) ==
  IF rest = <<>> THEN best
  ELSE MinBy(IF est[Head(rest)] < est[best] THEN Head(rest) ELSE best,
             Tail(rest), est)

\* [t for t in self._tools if t.can_handle(task)], as tool indexes
RECURSIVE Capable(_, _, _)
Capable(i, n, can) ==
  IF i > n THEN <<>>
  ELSE (IF can[i] THEN <<i>> ELSE <<>>) \o Capable(i + 1, n, can)

\* StepExecutor._select_tool: 0 stands for None.
SelectTool(n, can, est) ==
  LET capable == Capable(1, n, can)
  IN IF capable = <<>> THEN 0
     ELSE MinBy(Head(capable), Tail(capable), est)

\* A slip of the `for stuck in remaining` loop: it stops after one step.
RecordBlocked_FirstOnly(st, ss) ==
  IF ss = <<>> THEN st
  ELSE Record(st, StepOutcome(Head(ss).name, FALSE, NoArtifacts, 0,
                              BlockedError))

\* The outcomes recorded by the `if not ready` branch, in list order.
RECURSIVE RecordBlocked(_, _)
RecordBlocked(st, ss) ==
  IF ss = <<>> THEN st
  ELSE RecordBlocked(
         Record(st, StepOutcome(Head(ss).name, FALSE, NoArtifacts, 0,
                                BlockedError)),
         Tail(ss))

\* What a provider's execute may hand back for the k-th step begun:
\* artifacts under any keys (their values identify the producing call),
\* any cost, success or failure.
ArtifactChoices(keys, k) == {[key \in K |-> k] : K \in SUBSET keys}
ToolResults(keys, costs, k) ==
  {ToolResult(TRUE, a, c, NoError) :
      a \in ArtifactChoices(keys, k), c \in costs}
  \cup
  {ToolResult(FALSE, a, c, ToolError) :
      a \in ArtifactChoices(keys, k), c \in costs}

\* OrchestratorEngine.__init__ with no proxy and an empty playbook
\* directory: no synthesis tool, nothing cached, an empty ledger, no run()
\* made.
EngineIdle ==
  /\ synthesis_tool = FALSE
  /\ runs = 0
  /\ request = <<>>
  /\ playbook = None
  /\ run_id = 0
  /\ ledger = <<>>
  /\ synthCall = None
  /\ run_result = None
  /\ heap = <<>>
  /\ cache = None
  /\ handed = <<>>
  /\ FilesUntouched
  /\ NoCallers

\* ------------------------------------------------------------------------
\* Initial state: StepExecutor() with nTools register_tool calls, then the
\* entry of execute_all(lists) up to the first test of `while remaining`.
\* ------------------------------------------------------------------------
InitWith(lists, toolCounts) ==
  /\ steps \in lists
  /\ nTools \in toolCounts
  /\ pc = "loop"
  /\ remaining = steps
  /\ ready = <<>>
  /\ current = <<>>
  /\ step_index = 0
  /\ total = Len(steps)
  /\ context = NoArtifacts
  /\ outcomes = <<>>
  /\ total_cost = 0
  /\ completed = {}
  /\ failed = {}
  /\ startCalls = <<>>
  /\ selection = <<>>
  /\ invocations = <<>>
  /\ EngineIdle

Init == InitWith(StepLists, {0, 1})

\* ------------------------------------------------------------------------
\* execute_all
\* ------------------------------------------------------------------------
\* while remaining: ready = self._find_ready(...), ready not empty
StartPass ==
  /\ pc = "loop"
  /\ remaining # <<>>
  /\ FindReady(remaining, completed, failed) # <<>>
  /\ ready' = FindReady(remaining, completed, failed)
  /\ pc' = "pass"
  /\ UNCHANGED <<engineVars, steps, nTools, remaining, current, step_index, total,
                 context, outcomes, total_cost, completed, failed,
                 startCalls, selection, invocations>>

\* while remaining: nothing is ready: every remaining step is recorded as
\* blocked, break, return state
BlockRemaining ==
  /\ pc = "loop"
  /\ remaining # <<>>
  /\ FindReady(remaining, completed, failed) = <<>>
  /\ SetState(RecordBlocked(State, remaining))
  /\ pc' = "returned"
  /\ UNCHANGED <<engineVars, steps, nTools, remaining, ready, current, step_index,
                 total, startCalls, selection, invocations>>

\* while remaining: is false; return state
Return ==
  /\ pc = "loop"
  /\ remaining = <<>>
  /\ pc' = "returned"
  /\ UNCHANGED <<engineVars, steps, nTools, remaining, ready, current, step_index,
                 total, context, outcomes, total_cost, completed, failed,
                 startCalls, selection, invocations>>

\* A slip of execute_all: the index is passed before it is incremented.
BeginStep_ZeroBased ==
  /\ pc = "pass"
  /\ ready # <<>>
  /\ current' = Head(ready)
  /\ ready' = Tail(ready)
  /\ remaining' = Remove(remaining, Head(ready))
  /\ step_index' = step_index + 1
  /\ startCalls' = Append(startCalls, <<Head(ready).name, step_index, total>>)
  /\ selection' = <<>>
  /\ pc' = "begun"
  /\ UNCHANGED <<engineVars, steps, nTools, total, context, outcomes, total_cost,
                 completed, failed, invocations>>

\* A slip of the for loop: the step begun is left in `remaining`, so a later
\* pass finds it ready again.
BeginStep_KeepsRemaining ==
  /\ pc = "pass"
  /\ ready # <<>>
  /\ current' = Head(ready)
  /\ ready' = Tail(ready)
  /\ remaining' = remaining
  /\ step_index' = step_index + 1
  /\ startCalls' = Append(startCalls, <<Head(ready).name, step_index + 1, total>>)
  /\ selection' = <<>>
  /\ pc' = "begun"
  /\ UNCHANGED <<engineVars, steps, nTools, total, context, outcomes, total_cost,
                 completed, failed, invocations>>

\* A slip of execute_all: on_step_start is called for a step only once an
\* earlier step has completed.
BeginStep_SilentAtFirst ==
  /\ pc = "pass"
  /\ ready # <<>>
  /\ current' = Head(ready)
  /\ ready' = Tail(ready)
  /\ remaining' = Remove(remaining, Head(ready))
  /\ step_index' = step_index + 1
  /\ startCalls' = IF completed = {} THEN startCalls
                   ELSE Append(startCalls, <<Head(ready).name, step_index + 1, total>>)
  /\ selection' = <<>>
  /\ pc' = "begun"
  /\ UNCHANGED <<engineVars, steps, nTools, total, context, outcomes, total_cost,
                 completed, failed, invocations>>

\* for step in ready: remaining.remove(step); step_index += 1;
\* on_step_start(step.name, step_index, total)
BeginStep ==
  /\ pc = "pass"
  /\ ready # <<>>
  /\ current' = Head(ready)
  /\ ready' = Tail(ready)
  /\ remaining' = Remove(remaining, Head(ready))
  /\ step_index' = step_index + 1
  /\ startCalls' = Append(startCalls, <<Head(ready).name, step_index + 1, total>>)
  /\ selection' = <<>>
  /\ pc' = "begun"
  /\ UNCHANGED <<engineVars, steps, nTools, total, context, outcomes, total_cost,
                 completed, failed, invocations>>

\* A slip of the for loop: the while test is reached after every step, so
\* the ready set is computed again in the middle of a pass.
AfterStep_EveryStep == "loop"

\* Where the for loop goes after state.record(outcome).
AfterStep == IF ready = <<>> THEN "loop" ELSE "pass"

\* The answers of the registered providers to can_handle(task) and
\* estimate_cost(task) for one task.
CanAnswers == [1..nTools -> BOOLEAN]
EstAnswers == [1..nTools -> 0..MaxEst]

\* _select_tool(task) under some answers of the providers; `wanted` tells
\* whether a tool is found.  The answers and the tool chosen are the locals
\* of _execute_step: they are kept in `selection` only while `traced`.
Select(traced, wanted) ==
  IF traced
    THEN \E can \in CanAnswers, est \in EstAnswers :
           /\ (SelectTool(nTools, can, est) # 0) = wanted
           /\ selection' = [can |-> can, est |-> est,
                            tool |-> SelectTool(nTools, can, est)]
    ELSE /\ \E can \in CanAnswers, est \in EstAnswers :
              (SelectTool(nTools, can, est) # 0) = wanted
         /\ selection' = <<>>

\* What tool.execute(task, state.context) was called with, and when: the
\* ExecutionState at the call and the number of outcomes recorded before it.
Invocation ==
  [step |-> current, context |-> context,
   completed |-> completed, failed |-> failed, recorded |-> Len(outcomes)]

\* _execute_step: _select_tool(task) lets an exception of can_handle or
\* estimate_cost through; nothing in execute_all catches it.
SelectRaises ==
  /\ pc = "begun"
  /\ nTools > 0
  /\ pc' = "raised"
  /\ UNCHANGED <<engineVars, steps, nTools, remaining, ready, current, step_index,
                 total, context, outcomes, total_cost, completed, failed,
                 startCalls, selection, invocations>>

\* _execute_step with tool is None, then state.record(outcome)
NoTool(traced) ==
  /\ pc = "begun"
  /\ Select(traced, FALSE)
  /\ SetState(Record(State,
        StepOutcome(current.name, FALSE, NoArtifacts, 0,
                    NoToolError(current.capability))))
  /\ pc' = AfterStep
  /\ UNCHANGED <<engineVars, steps, nTools, remaining, ready, current, step_index,
                 total, startCalls, invocations>>

\* _execute_step with a tool selected: tool.execute(task, state.context)
\* returns a ToolResult, then state.record(outcome)
Execute(keys, costs, traced) ==
  /\ pc = "begun"
  /\ Select(traced, TRUE)
  /\ invocations' = Append(invocations, Invocation)
  /\ \E result \in ToolResults(keys, costs, step_index) :
       SetState(Record(State,
          StepOutcome(current.name, result.success, result.artifacts,
                      result.cost, result.error)))
  /\ pc' = AfterStep
  /\ UNCHANGED <<engineVars, steps, nTools, remaining, ready, current, step_index,
                 total, startCalls>>

\* _execute_step with a tool selected: tool.execute raises; the except
\* clause turns it into ToolResult(success=False, error=str(exc))
ExecuteRaises(traced) ==
  /\ pc = "begun"
  /\ Select(traced, TRUE)
  /\ invocations' = Append(invocations, Invocation)
  /\ LET result == ToolResult(FALSE, NoArtifacts, 0, ExcText) IN
       SetState(Record(State,
          StepOutcome(current.name, result.success, result.artifacts,
                      result.cost, result.error)))
  /\ pc' = AfterStep
  /\ UNCHANGED <<engineVars, steps, nTools, remaining, ready, current, step_index,
                 total, startCalls>>

\* Scheduling: every step list, provider results without artifacts or cost.
Next ==
  \/ StartPass
  \/ BlockRemaining
  \/ Return
  \/ BeginStep
  \/ SelectRaises
  \/ NoTool(FALSE)
  \/ Execute({}, {0}, FALSE)
  \/ ExecuteRaises(FALSE)

Spec == Init /\ [][Next]_vars

\* Providers whose can_handle and estimate_cost return: they succeed,
\* report a failure, or raise from execute.
NextBehaved ==
  \/ StartPass
  \/ BlockRemaining
  \/ Return
  \/ BeginStep
  \/ NoTool(FALSE)
  \/ Execute({}, {0}, FALSE)
  \/ ExecuteRaises(FALSE)

SpecBehaved == Init /\ [][NextBehaved]_vars

\* Data flow: step lists with distinct names, provider results with any
\* artifacts.
InitData == InitWith(DistinctStepLists, {0, 1})

NextData ==
  \/ StartPass
  \/ BlockRemaining
  \/ Return
  \/ BeginStep
  \/ SelectRaises
  \/ NoTool(FALSE)
  \/ Execute(ArtifactKeys, {0}, FALSE)
  \/ ExecuteRaises(FALSE)

SpecData == InitData /\ [][NextData]_vars

\* Cost accounting: step lists with distinct names, provider results with
\* any cost, on success and on failure.
InitCost == InitWith(DistinctStepLists, {0, 1})

NextCost ==
  \/ StartPass
  \/ BlockRemaining
  \/ Return
  \/ BeginStep
  \/ SelectRaises
  \/ NoTool(FALSE)
  \/ Execute({}, 0..MaxCost, FALSE)
  \/ ExecuteRaises(FALSE)

SpecCost == InitCost /\ [][NextCost]_vars

\* Provider selection: the answers of can_handle and estimate_cost are kept.
InitSelect ==
  InitWith({l \in DistinctStepLists : Len(l) <= MaxSelectSteps}, 0..MaxTools)

NextSelect ==
  \/ StartPass
  \/ BlockRemaining
  \/ Return
  \/ BeginStep
  \/ SelectRaises
  \/ NoTool(TRUE)
  \/ Execute({}, {0}, TRUE)
  \/ ExecuteRaises(TRUE)

SpecSelect == InitSelect /\ [][NextSelect]_vars

\* ------------------------------------------------------------------------
\* The built-in providers
\* ------------------------------------------------------------------------
\* _SCRIPT_CAPABILITIES, _FILE_CAPABILITIES, _LLM_CAPABILITIES
ScriptCapabilities ==
  {"script", "shell", "bash", "python_script", "test_runner", "formatter"}
FileCapabilities ==
  {"file_write", "file_read", "file_copy", "file_delete", "file_list"}
LLMCapabilities ==
  {"code_generation", "code_review", "architecture", "documentation",
   "bug_fix", "refactor", "planning", "synthesis", "general"}

\* can_handle(task) of ScriptTool, FileTool and LLMTool
CanHandle(kind, task) ==
  CASE kind = "script" ->
         task.capability \in ScriptCapabilities \/ task.tool_type = "script"
    [] kind = "file" ->
         task.capability \in FileCapabilities \/ task.tool_type = "file"
    [] kind = "llm" ->
         task.capability \in LLMCapabilities \/ task.tool_type = "llm"

\* OrchestratorEngine.start: the kinds of the tools it registers, in the
\* order of registration; `proxy` tells whether a proxy is wired.
Start(proxy) == (IF proxy THEN <<"llm">> ELSE <<>>) \o <<"file">>

\* The steps of a playbook for the built-in providers: a script step, a
\* file step and an LLM step, each with the tool_type of its provider.
BuiltinKinds ==
  {[capability |-> "script", tool_type |-> "script"],
   [capability |-> "file_write", tool_type |-> "file"],
   [capability |-> "general", tool_type |-> "llm"]}
BuiltinSteps ==
  [name : Names, depends_on : SUBSET DepNames,
   capability : {k.capability : k \in BuiltinKinds},
   tool_type : {k.tool_type : k \in BuiltinKinds}]
BuiltinLists ==
  {l \in UNION {[1..n -> BuiltinSteps] : n \in 1..MaxSelectSteps} :
     \A i \in DOMAIN l :
       /\ l[i].name = NameAt(i)
       /\ [capability |-> l[i].capability, tool_type |-> l[i].tool_type]
            \in BuiltinKinds}

\* start() on a new engine, with or without a proxy, then the entry of
\* execute_all on a step list; synthesis_tool is set when a proxy is wired.
InitBuiltin ==
  /\ steps \in BuiltinLists
  /\ synthesis_tool \in BOOLEAN
  /\ nTools = Len(Start(synthesis_tool))
  /\ pc = "loop"
  /\ remaining = steps
  /\ ready = <<>> /\ current = <<>> /\ step_index = 0
  /\ total = Len(steps)
  /\ context = NoArtifacts /\ outcomes = <<>> /\ total_cost = 0
  /\ completed = {} /\ failed = {}
  /\ startCalls = <<>> /\ selection = <<>> /\ invocations = <<>>
  /\ runs = 0 /\ request = <<>> /\ playbook = None /\ run_id = 0
  /\ ledger = <<>> /\ synthCall = None /\ run_result = None
  /\ heap = <<>> /\ cache = None /\ handed = <<>>
  /\ FilesUntouched /\ NoCallers

\* _select_tool(task) over the tools of start(): can_handle as the
\* built-in tools answer it; FileTool estimates 0, LLMTool some cost.
BuiltinTool(est) ==
  LET tools == Start(synthesis_tool)
  IN SelectTool(nTools,
                [i \in 1..nTools |-> CanHandle(tools[i], current)],
                [i \in 1..nTools |->
                   IF tools[i] = "file" THEN 0 ELSE est])

\* _execute_step with no built-in tool capable
BuiltinNoTool ==
  /\ pc = "begun"
  /\ \A est \in 0..MaxEst : BuiltinTool(est) = 0
  /\ SetState(Record(State,
        StepOutcome(current.name, FALSE, NoArtifacts, 0,
                    NoToolError(current.capability))))
  /\ pc' = AfterStep
  /\ UNCHANGED <<engineVars, steps, nTools, remaining, ready, current,
                 step_index, total, startCalls, selection, invocations>>

\* _execute_step with a built-in tool selected: its execute returns a
\* ToolResult, or raises and the except clause makes the ToolResult.
BuiltinExecute ==
  /\ pc = "begun"
  /\ \E est \in 0..MaxEst : BuiltinTool(est) # 0
  /\ invocations' = Append(invocations, Invocation)
  /\ \E result \in ToolResults({}, {0}, step_index)
                    \cup {ToolResult(FALSE, NoArtifacts, 0, ExcText)} :
       SetState(Record(State,
          StepOutcome(current.name, result.success, result.artifacts,
                      result.cost, result.error)))
  /\ pc' = AfterStep
  /\ UNCHANGED <<engineVars, steps, nTools, remaining, ready, current,
                 step_index, total, startCalls, selection>>

NextBuiltin ==
  \/ StartPass
  \/ BlockRemaining
  \/ Return
  \/ BeginStep
  \/ BuiltinNoTool
  \/ BuiltinExecute

SpecBuiltin == InitBuiltin /\ [][NextBuiltin]_vars

\* ------------------------------------------------------------------------
\* LLMTool and the proxy behind it
\* ------------------------------------------------------------------------
\* The models a request is tried on: the primary model and its fallback
\* chain (get_fallback_chain).
ModelChains == {<<"m1">>, <<"m1", "m2">>}

\* FallbackExecutor.execute: request_fn(model) is tried on each model in
\* turn; `raises[m]` tells whether it raises for model m, `response` is
\* what it returns otherwise.
RECURSIVE TryModels(_, _, _, _)
TryModels(models, raises, response, attempts) ==
  IF models = <<>>
    THEN [success |-> FALSE, response |-> <<>>,
          error |-> <<"All", Len(attempts), "models failed">>,
          attempts |-> attempts]
    ELSE IF raises[Head(models)]
           THEN TryModels(Tail(models), raises, response,
                          Append(attempts, Head(models)))
           ELSE [success |-> TRUE, response |-> response,
                 error |-> <<>>, attempts |-> attempts]
FallbackExecute(models, raises, response) ==
  TryModels(models, raises, response, <<>>)

\* What proxy.handle_request gives LLMTool.execute: it raises, or returns
\* the dict with the RequestResult of the fallback executor.
Completions ==
  {[raised |-> TRUE]}
  \cup
  {[raised |-> FALSE, result |-> FallbackExecute(ms, raises, response)] :
     ms \in ModelChains, raises \in [{"m1", "m2"} -> BOOLEAN],
     response \in {<<>>, <<"text">>}}

\* The completion call failed: the collaborator raised, or reported that
\* every model of the chain failed.
CompletionFailed(c) == c.raised \/ ~ c.result.success

\* LLMTool.execute on the task of `step`, given what handle_request did.
\* The artifact key is task["output"], which to_task_dict sets to the
\* step's name when the playbook gives no output.
LLMExecute(step, c) ==
  IF c.raised
    THEN ToolResult(FALSE, NoArtifacts, 0, ExcText)
    ELSE LET response_text ==
               IF c.result.success /\ c.result.response # <<>>
                 THEN c.result.response ELSE <<>>
         IN ToolResult(TRUE, [k \in {step.name} |-> response_text], 0,
                       NoError)

\* _execute_step of a step served by the LLM tool, then
\* state.record(outcome); the completion is kept with the invocation.
ExecuteLLM ==
  /\ pc = "begun"
  /\ \E c \in Completions :
       /\ invocations' =
            Append(invocations,
                   [step |-> current, recorded |-> Len(outcomes),
                    completion |-> c])
       /\ LET result == LLMExecute(current, c) IN
            SetState(Record(State,
               StepOutcome(current.name, result.success, result.artifacts,
                           result.cost, result.error)))
  /\ pc' = AfterStep
  /\ UNCHANGED <<engineVars, steps, nTools, remaining, ready, current,
                 step_index, total, startCalls, selection>>

\* execute_all on an executor whose one tool is an LLMTool.  The steps
\* carry the default tool_type "llm", so the tool can handle each of them.
InitLLM ==
  InitWith({l \in DistinctStepLists : Len(l) <= MaxSelectSteps}, {1})

NextLLM ==
  \/ StartPass
  \/ BlockRemaining
  \/ Return
  \/ BeginStep
  \/ ExecuteLLM

SpecLLM == InitLLM /\ [][NextLLM]_vars

\* ------------------------------------------------------------------------
\* FileTool
\* ------------------------------------------------------------------------
\* Relative paths a task may name: f, d, d/f, d/e/f, ../f, d/../f.
RelPaths ==
  {<<"f">>, <<"d">>, <<"d", "f">>, <<"d", "e", "f">>, <<"..", "f">>,
   <<"d", "..", "f">>}

\* Texts a task may give as content, as tuples of characters: "", "x",
\* "x\ny" and "x\r\ny".
Contents ==
  {<<>>, <<"x">>, <<"x", "LF", "y">>, <<"x", "CR", "LF", "y">>}

\* Path.resolve() of a path without symbolic links: ".." steps to the
\* parent, and the parent of the root is the root.
RECURSIVE Normalise(_, _)
Normalise(done, rest) ==
  IF rest = <<>> THEN done
  ELSE IF Head(rest) = ".."
         THEN Normalise(IF done = <<>> THEN <<>>
                        ELSE SubSeq(done, 1, Len(done) - 1), Tail(rest))
         ELSE Normalise(Append(done, Head(rest)), Tail(rest))

\* FileTool._resolve of a relative path that is not empty
Resolve(rel_path) == Normalise(BaseDir, rel_path)

Parent(path) ==
  IF path = <<>> THEN <<>> ELSE SubSeq(path, 1, Len(path) - 1)
Prefixes(path) == {SubSeq(path, 1, n) : n \in 0..Len(path)}
Exists(d, path) == path \in DOMAIN d.files \/ path \in d.dirs

\* path.mkdir(parents=True, exist_ok=True): it raises when a component of
\* the path is a file, and otherwise makes the directories that miss.
Mkdir(d, path) ==
  IF \E q \in Prefixes(path) : q \in DOMAIN d.files
    THEN [raised |-> TRUE, disk |-> d]
    ELSE [raised |-> FALSE,
          disk |-> [d EXCEPT !.dirs = @ \cup Prefixes(path)]]

\* write_text(text, encoding="utf-8"): text mode writes os.linesep for
\* each "\n" (POSIX: the line feed itself);  read_text(encoding="utf-8"):
\* universal newlines, "\r\n" and "\r" are read as "\n".
LineSep == <<"LF">>
RECURSIVE WriteText(_)
WriteText(text) ==
  IF text = <<>> THEN <<>>
  ELSE (IF Head(text) = "LF" THEN LineSep ELSE <<Head(text)>>)
       \o WriteText(Tail(text))
RECURSIVE ReadText(_)
ReadText(stored) ==
  IF stored = <<>> THEN <<>>
  ELSE IF Head(stored) = "CR"
         THEN <<"LF">> \o ReadText(IF Len(stored) > 1 /\ stored[2] = "LF"
                                    THEN Tail(Tail(stored))
                                    ELSE Tail(stored))
         ELSE <<Head(stored)>> \o ReadText(Tail(stored))

\* What a FileTool operation gives: a ToolResult that succeeded ("ok") or
\* not ("failed"), or an exception out of execute ("raised"); and the tree
\* it leaves.
FileResult(status, output, d) ==
  [status |-> status, output |-> output, disk |-> d]

\* FileTool._write with task["content"] given
Write(d, rel_path, content) ==
  LET path == Resolve(rel_path)
      made == Mkdir(d, Parent(path))
  IN IF made.raised \/ path \in made.disk.dirs
       THEN FileResult("raised", None, made.disk)
       ELSE FileResult("ok", path,
              [made.disk EXCEPT
                 !.files = [p \in DOMAIN @ \cup {path} |->
                              IF p = path THEN WriteText(content) ELSE @[p]]])

\* FileTool._read
Read(d, rel_path) ==
  LET path == Resolve(rel_path)
  IN IF ~ Exists(d, path) THEN FileResult("failed", None, d)
     ELSE IF path \in d.dirs THEN FileResult("raised", None, d)
     ELSE FileResult("ok", ReadText(d.files[path]), d)

\* FileTool._copy: shutil.copy2 copies into dst when dst is a directory,
\* and raises when src is a directory or src and dst are the same file.
CopyTarget(d, src_rel, dst_rel) ==
  LET src == Resolve(src_rel)
      dst == Resolve(dst_rel)
  IN IF dst \in Mkdir(d, Parent(dst)).disk.dirs /\ src # <<>>
       THEN Append(dst, src[Len(src)]) ELSE dst
Copy(d, src_rel, dst_rel) ==
  LET src == Resolve(src_rel)
      dst == Resolve(dst_rel)
      made == Mkdir(d, Parent(dst))
      target == CopyTarget(d, src_rel, dst_rel)
  IN IF ~ Exists(d, src) THEN FileResult("failed", None, d)
     ELSE IF \/ made.raised
             \/ src \in made.disk.dirs
             \/ target \in made.disk.dirs
             \/ target = src
       THEN FileResult("raised", None, made.disk)
     ELSE FileResult("ok", dst,
            [made.disk EXCEPT
               !.files = [p \in DOMAIN @ \cup {target} |->
                            IF p = target THEN @[src] ELSE @[p]]])

\* FileTool._delete
Delete(d, rel_path) ==
  LET path == Resolve(rel_path)
  IN IF ~ Exists(d, path) THEN FileResult("failed", None, d)
     ELSE IF path \in d.dirs THEN FileResult("raised", None, d)
     ELSE FileResult("ok", path,
            [d EXCEPT !.files = [p \in DOMAIN @ \ {path} |-> @[p]]])

\* FileTool.execute(task, context) through the dispatch table; the log
\* keeps the call, what it gave, and the files it has put in place.
FileCall(call, res, put, removed) ==
  /\ fileLog.count < MaxFileOps
  /\ disk' = res.disk
  /\ fileLog' = [count |-> fileLog.count + 1,
                 last |-> Some([call |-> call, status |-> res.status,
                                output |-> res.output, before |-> disk]),
                 written |-> IF res.status = "ok"
                               THEN (fileLog.written \ removed) \cup put
                               ELSE fileLog.written]
  /\ UNCHANGED <<steps, nTools, pc, remaining, ready, current, step_index,
                 total, context, outcomes, total_cost, completed, failed,
                 startCalls, selection, invocations, runVars,
                 decomposerVars, callerVars>>

ExecuteWrite ==
  \E path \in RelPaths, content \in Contents :
    FileCall([operation |-> "write", path |-> path, content |-> content],
             Write(disk, path, content), {Resolve(path)}, {})

ExecuteRead ==
  \E path \in RelPaths :
    FileCall([operation |-> "read", path |-> path],
             Read(disk, path), {}, {})

ExecuteCopy ==
  \E src \in RelPaths, dst \in RelPaths :
    FileCall([operation |-> "copy", src |-> src, dst |-> dst],
             Copy(disk, src, dst), {CopyTarget(disk, src, dst)}, {})

ExecuteDelete ==
  \E path \in RelPaths :
    FileCall([operation |-> "delete", path |-> path],
             Delete(disk, path), {}, {Resolve(path)})

\* ------------------------------------------------------------------------
\* TaskDecomposer
\* ------------------------------------------------------------------------
\* A text is a sequence of tokens; <<>> is the empty string.  The token
\* Placeholder[k] is the placeholder "{k}" of a template.
VariableNames == {"user_requirements", "lang"}
Placeholder == [k \in VariableNames |->
                  IF k = "lang" THEN "{lang}" ELSE "{user_requirements}"]
DefaultPrompt == <<"Please help with the following task.">>

\* str.replace(tok, val)
RECURSIVE Replace(_, _, _)
Replace(text, tok, val) ==
  IF text = <<>> THEN <<>>
  ELSE (IF Head(text) = tok THEN val ELSE <<Head(text)>>)
       \o Replace(Tail(text), tok, val)

\* TaskDecomposer._sub; the context dict is the sequence of its items, in
\* insertion order.
RECURSIVE Sub(_, _)
Sub(text, items) ==
  IF items = <<>> THEN text
  ELSE Sub(Replace(text, Placeholder[Head(items)[1]], Head(items)[2]),
           Tail(items))

\* context.update(variables) on items: an existing key keeps its place.
SetItem(items, k, v) ==
  IF \E i \in DOMAIN items : items[i][1] = k
    THEN [i \in DOMAIN items |-> IF items[i][1] = k THEN <<k, v>> ELSE items[i]]
    ELSE Append(items, <<k, v>>)
RECURSIVE ItemsUpdate(_, _)
ItemsUpdate(items, other) ==
  IF other = <<>> THEN items
  ELSE ItemsUpdate(SetItem(items, Head(other)[1], Head(other)[2]), Tail(other))

\* dict.get(key, default) and dict.setdefault(key, v) on the entries of a
\* dict
Get(raw, key, default) == IF key \in DOMAIN raw THEN raw[key] ELSE default
SetDefault(d, k, v) ==
  IF k \in DOMAIN d THEN d
  ELSE [x \in (DOMAIN d) \cup {k} |-> IF x = k THEN v ELSE d[x]]

\* Objects of the heap.  A depends_on list is kept as the set of its
\* items: the scheduler only tests membership.
ListObj(items) == [items |-> items]
DictObj(entries) == [entries |-> entries]

\* yaml.safe_load of one step mapping: its depends_on list, when written,
\* becomes a list object.
LoadRaw(h, src) ==
  IF "depends_on" \in DOMAIN src
    THEN [heap |-> Append(h, ListObj(src.depends_on)),
          raw  |-> [src EXCEPT !.depends_on = Len(h) + 1]]
    ELSE [heap |-> h, raw |-> src]

\* TaskDecomposer._parse_step: a Step object, reduced to the fields the
\* scheduler and the claims read.  depends_on is raw's list when raw has
\* one, a new empty list otherwise.
ParseStep(h, raw) ==
  LET fresh == "depends_on" \notin DOMAIN raw
      h1    == IF fresh THEN Append(h, ListObj({})) ELSE h
      step  == [name       |-> Get(raw, "name", "unnamed"),
                capability |-> Get(raw, "capability", "general"),
                prompt     |-> Get(raw, "prompt", <<>>),
                path       |-> Get(raw, "path", <<>>),
                content    |-> IF "content" \in DOMAIN raw
                                 THEN Some(raw.content) ELSE None,
                depends_on |-> IF fresh THEN Len(h1) ELSE raw.depends_on,
                output     |-> Get(raw, "output", Get(raw, "name", "result"))]
  IN [heap |-> Append(h1, step), id |-> Len(h1) + 1]

\* for s in steps_raw: pb.steps.append(self._parse_step(s))
RECURSIVE ParseSteps(_, _)
ParseSteps(h, srcs) ==
  IF srcs = <<>> THEN [heap |-> h, ids |-> <<>>]
  ELSE LET l == LoadRaw(h, Head(srcs))
           p == ParseStep(l.heap, l.raw)
           r == ParseSteps(p.heap, Tail(srcs))
       IN [heap |-> r.heap, ids |-> <<p.id>> \o r.ids]

\* load_playbook of a file whose content is src: _parse_playbook.  The
\* synthesis mapping is kept as a dict object.
ParsePlaybook(h, name, src) ==
  LET ps     == ParseSteps(h, Get(src, "steps", <<>>))
      hasSyn == "synthesis" \in DOMAIN src
      l      == LoadRaw(ps.heap, src.synthesis)
      h2     == IF hasSyn THEN Append(l.heap, DictObj(l.raw)) ELSE ps.heap
  IN [heap |-> h2,
      playbook |-> [name |-> Get(src, "name", name),
                    steps |-> ps.ids,
                    synthesis |-> IF hasSyn THEN Some(Len(h2)) ELSE None]]

\* A slip of _substitute_step: copy.copy, the new Step shares the lists of
\* the old one.
DeepCopy_Shallow(h, id) == [heap |-> Append(h, h[id]), id |-> Len(h) + 1]

\* copy.deepcopy(step): a new Step with a new depends_on list
DeepCopy(h, id) ==
  LET h1 == Append(h, ListObj(h[h[id].depends_on].items))
  IN [heap |-> Append(h1, [h[id] EXCEPT !.depends_on = Len(h1)]),
      id |-> Len(h1) + 1]

\* TaskDecomposer._substitute_step
SubstituteStep(h, id, items) ==
  LET c == DeepCopy(h, id)
  IN [heap |-> [c.heap EXCEPT ![c.id] =
                  [@ EXCEPT !.prompt = Sub(@, items),
                            !.path = Sub(@, items),
                            !.content = IF @ = None THEN None
                                        ELSE Some(Sub(@[1], items))]],
      id |-> c.id]

\* for step in playbook.steps: steps.append(self._substitute_step(...))
RECURSIVE SubstituteSteps(_, _, _)
SubstituteSteps(h, ids, items) ==
  IF ids = <<>> THEN [heap |-> h, ids |-> <<>>]
  ELSE LET s == SubstituteStep(h, Head(ids), items)
           r == SubstituteSteps(s.heap, Tail(ids), items)
       IN [heap |-> r.heap, ids |-> <<s.id>> \o r.ids]

\* A slip of _fallback_steps: the prompt is the request whatever it is.
FallbackSteps_Verbatim(h, user_requirements) ==
  LET h1 == Append(h, ListObj({}))
  IN [heap |-> Append(h1, [name |-> "execute", capability |-> "general",
                           prompt |-> user_requirements,
                           path |-> <<>>, content |-> None,
                           depends_on |-> Len(h1), output |-> "result"]),
      ids |-> <<Len(h1) + 1>>]

\* TaskDecomposer._fallback_steps: `user_requirements or "Please help..."`
FallbackSteps(h, user_requirements) ==
  LET h1 == Append(h, ListObj({}))
  IN [heap |-> Append(h1, [name |-> "execute", capability |-> "general",
                           prompt |-> IF user_requirements = <<>>
                                        THEN DefaultPrompt
                                        ELSE user_requirements,
                           path |-> <<>>, content |-> None,
                           depends_on |-> Len(h1), output |-> "result"]),
      ids |-> <<Len(h1) + 1>>]

\* TaskDecomposer.decompose; `variables` is None (<<>>) or the items of the
\* dict.  The result is the new heap and the list of Steps returned.
Decompose(h, pb, user_requirements, variables) ==
  IF pb = None THEN FallbackSteps(h, user_requirements)
  ELSE SubstituteSteps(h, pb.steps,
         ItemsUpdate(<< <<"user_requirements", user_requirements>> >>,
                     variables))

\* TaskDecomposer.build_synthesis_step; ids is <<>> for None.
BuildSynthesisStep(h, pb, user_requirements) ==
  IF pb.synthesis = None THEN [heap |-> h, ids |-> <<>>]
  ELSE IF DOMAIN h[pb.synthesis[1]].entries = {}
    THEN [heap |-> h, ids |-> <<>>]
  ELSE LET raw == SetDefault(SetDefault(SetDefault(
                    h[pb.synthesis[1]].entries,
                    "name", "_synthesis"), "tool_type", "llm"),
                    "capability", "synthesis")
           p == ParseStep(Append(h, DictObj(raw)), raw)
           s == SubstituteStep(p.heap, p.id,
                               << <<"user_requirements", user_requirements>> >>)
       IN [heap |-> s.heap, ids |-> <<s.id>>]

\* A Step as the scheduler reads it: its fields, depends_on by its items.
StepValue(h, id) == [h[id] EXCEPT !.depends_on = h[@].items]
StepValues(h, ids) == [i \in DOMAIN ids |-> StepValue(h, ids[i])]

\* ------------------------------------------------------------------------
\* ResultSynthesizer
\* ------------------------------------------------------------------------
\* Artifact keys of the runs summarised, as sequences of characters, and
\* the code points of their characters: "_m" is internal, "a_" and "r" are
\* not.
SummaryKeys == {<<"r">>, <<"a", "_">>, <<"_", "m">>}
CharCode == [c \in {"_", "a", "m", "r"} |->
               IF c = "_" THEN 95 ELSE IF c = "a" THEN 97
               ELSE IF c = "m" THEN 109 ELSE 114]

\* k.startswith("_")
IsInternal(key) == key # <<>> /\ Head(key) = "_"

\* a < b on str: by code points, a proper prefix first
RECURSIVE StrLess(_, _)
StrLess(a, b) ==
  IF a = <<>> THEN b # <<>>
  ELSE IF b = <<>> THEN FALSE
  ELSE IF CharCode[Head(a)] # CharCode[Head(b)]
    THEN CharCode[Head(a)] < CharCode[Head(b)]
  ELSE StrLess(Tail(a), Tail(b))

\* A slip of sorted(artifact_names): the largest key comes first.
RECURSIVE SortedKeys_Descending(_)
SortedKeys_Descending(S) ==
  IF S = {} THEN <<>>
  ELSE LET m == CHOOSE x \in S : \A y \in S \ {x} : StrLess(y, x)
       IN <<m>> \o SortedKeys_Descending(S \ {m})

\* sorted(artifact_names)
RECURSIVE SortedKeys(_)
SortedKeys(S) ==
  IF S = {} THEN <<>>
  ELSE LET m == CHOOSE x \in S : \A y \in S \ {x} : StrLess(x, y)
       IN <<m>> \o SortedKeys(S \ {m})

\* sorted(state.failed): step names by the code point of their first
\* character, which differs between any two names of the model.
NameCode == [n \in Names \cup {"execute"} |->
               IF n = "A" THEN 65 ELSE IF n = "B" THEN 66
               ELSE IF n = "C" THEN 67 ELSE 101]
RECURSIVE SortedNames(_)
SortedNames(S) ==
  IF S = {} THEN <<>>
  ELSE LET m == CHOOSE x \in S : \A y \in S : NameCode[x] <= NameCode[y]
       IN <<m>> \o SortedNames(S \ {m})

\* f"{total_cost:.4f}": the amount in units of $0.0001.  A cost unit of the
\* model is half of that, $0.00005.
Fmt4(cost) == (cost + 1) \div 2

\* What the synthesis provider may answer: a narrative, an empty text, a
\* failed ToolResult, an exception.
SynthesisAnswers ==
  {[kind |-> "ok", output |-> <<"narrative">>],
   [kind |-> "ok", output |-> <<>>],
   [kind |-> "failed", output |-> <<>>],
   [kind |-> "raised", output |-> <<>>]}

\* A slip of _run_synthesis: the text of a failed result is returned too.
RunSynthesis_AnyResult(answer) ==
  IF answer.kind # "raised" THEN Some(answer.output) ELSE None

\* ResultSynthesizer._run_synthesis with self.tool present
RunSynthesis(answer) ==
  IF answer.kind = "ok" THEN Some(answer.output) ELSE None

\* ResultSynthesizer._build_summary: the lines of the summary
BuildSummary(st, synthesis_output) ==
  LET artifact_names == {k \in DOMAIN st.context : ~ IsInternal(k)}
  IN (IF synthesis_output # None /\ synthesis_output # Some(<<>>)
        THEN <<[line |-> "narrative", text |-> synthesis_output[1]],
               [line |-> "blank"]>>
        ELSE <<>>)
     \o <<IF st.failed # {}
            THEN [line |-> "WARNING: n step(s) failed: names",
                  n |-> Cardinality(st.failed),
                  names |-> SortedNames(st.failed)]
            ELSE [line |-> "All n steps completed successfully.",
                  n |-> Cardinality(st.completed)]>>
     \o <<[line |-> "Total cost: $amount", amount |-> Fmt4(st.total_cost)]>>
     \o (IF artifact_names # {}
           THEN <<[line |-> "Artifacts: keys",
                   keys |-> SortedKeys(artifact_names)]>>
           ELSE <<>>)

\* A slip of synthesize: success is read off the completed set.
Synthesize_SuccessIfAnyCompleted(st, hasStep, hasTool, answer) ==
  LET synthesis_output ==
        IF hasStep /\ hasTool THEN RunSynthesis(answer) ELSE None
  IN [success          |-> st.completed # {},
      summary          |-> BuildSummary(st, synthesis_output),
      artifacts        |-> st.context,
      total_cost       |-> st.total_cost,
      step_count       |-> Len(st.outcomes),
      failed_steps     |-> st.failed,
      synthesis_output |-> synthesis_output]

\* ResultSynthesizer.synthesize: hasStep is `synthesis_step is not None`,
\* hasTool is `self.tool is not None`; failed_steps is list(state.failed),
\* a list in no particular order, kept as a set.
Synthesize(st, hasStep, hasTool, answer) ==
  LET synthesis_output ==
        IF hasStep /\ hasTool THEN RunSynthesis(answer) ELSE None
  IN [success          |-> st.failed = {},
      summary          |-> BuildSummary(st, synthesis_output),
      artifacts        |-> st.context,
      total_cost       |-> st.total_cost,
      step_count       |-> Len(st.outcomes),
      failed_steps     |-> st.failed,
      synthesis_output |-> synthesis_output]

\* ------------------------------------------------------------------------
\* OrchestrationStateStore
\* ------------------------------------------------------------------------
\* The rows of orchestration_runs are kept in insertion order, which is the
\* order of started_at.  str(v) of an artifact value:
Str(v) == <<"str", v>>

\* create_run: INSERT OR REPLACE drops a row with the same run_id
CreateRun(rows, id, req, pb) ==
  SelectSeq(rows, LAMBDA r : r.run_id # id)
  \o <<[run_id |-> id, playbook |-> pb, request |-> req,
        status |-> "running", total_cost |-> 0, step_count |-> 0,
        artifacts |-> None, summary |-> None, finished |-> FALSE]>>

\* A slip of complete_run: the status is "completed" whatever `success`.
CompleteRun_AlwaysCompleted(rows, id, success, cost, count, artifacts, summary) ==
  [i \in DOMAIN rows |->
     IF rows[i].run_id = id
       THEN [rows[i] EXCEPT
               !.status = "completed",
               !.total_cost = cost, !.step_count = count,
               !.artifacts = Some([k \in DOMAIN artifacts |-> Str(artifacts[k])]),
               !.summary = Some(summary), !.finished = TRUE]
       ELSE rows[i]]

\* complete_run: UPDATE ... WHERE run_id=?
CompleteRun(rows, id, success, cost, count, artifacts, summary) ==
  [i \in DOMAIN rows |->
     IF rows[i].run_id = id
       THEN [rows[i] EXCEPT
               !.status = IF success THEN "completed" ELSE "failed",
               !.total_cost = cost, !.step_count = count,
               !.artifacts = Some([k \in DOMAIN artifacts |-> Str(artifacts[k])]),
               !.summary = Some(summary), !.finished = TRUE]
       ELSE rows[i]]

\* A row as SELECT * gives it: the columns in the order of _CREATE_RUNS,
\* counted from 0 (the id and the two timestamps are not modelled), each
\* value with its SQLite type.
Null == [type |-> "null"]
Number(n) == [type |-> "int", value |-> n]
Text(t) == [type |-> "text", value |-> t]
Nullable(v) == IF v = None THEN Null ELSE Text(v[1])
Columns(row) ==
  [n \in 0..10 |->
     CASE n = 1 -> Number(row.run_id)
       [] n = 2 -> Nullable(row.playbook)
       [] n = 3 -> Text(row.request)
       [] n = 4 -> Text(row.status)
       [] n = 5 -> Number(row.total_cost)
       [] n = 6 -> Number(row.step_count)
       [] n = 7 -> Nullable(row.artifacts)
       [] n = 8 -> Nullable(row.summary)
       [] OTHER -> Null]

\* `json.loads(v or "{}")` under the try of _row_to_record, followed by
\* `artifacts if isinstance(artifacts, dict) else {}`: NULL and 0 are falsy
\* and give "{}", another number is not a JSON text (TypeError, caught), a
\* text is the map that json.dumps wrote.
LoadArtifacts(v) ==
  IF v.type = "text" THEN v.value ELSE NoArtifacts

\* _row_to_record
RowToRecord(row) ==
  LET r == Columns(row)
      artifacts_json == r[6]
  IN [run_id |-> r[1].value,
      playbook |-> IF r[2].type = "null" THEN None ELSE Some(r[2].value),
      request |-> r[3].value,
      status |-> r[4].value,
      total_cost |-> r[5].value,
      step_count |-> IF r[6].type = "int" THEN r[6].value ELSE 0,
      artifacts |-> LoadArtifacts(artifacts_json),
      summary |-> IF r[8].type = "null" THEN <<>> ELSE r[8].value]

\* get_run(run_id): the record of the row, or None
GetRun(rows, id) ==
  LET found == SelectSeq(rows, LAMBDA r : r.run_id = id)
  IN IF found = <<>> THEN None ELSE Some(RowToRecord(found[1]))

\* list_runs(limit): ORDER BY started_at DESC LIMIT limit
ListRuns(rows, limit) ==
  [i \in 1..(IF limit < Len(rows) THEN limit ELSE Len(rows)) |->
     RowToRecord(rows[Len(rows) + 1 - i])]

\* The default of `limit` in OrchestratorEngine.history
HistoryLimit == 10

\* OrchestratorEngine.history(limit); the requests of the model are shorter
\* than the 60 characters after which the entry is cut.
History(rows, limit) ==
  LET rs == ListRuns(rows, limit)
  IN [i \in DOMAIN rs |->
        [run_id |-> rs[i].run_id, playbook |-> rs[i].playbook,
         request |-> rs[i].request, status |-> rs[i].status,
         cost |-> rs[i].total_cost, steps |-> rs[i].step_count]]

\* ------------------------------------------------------------------------
\* OrchestratorEngine
\* ------------------------------------------------------------------------
\* Content of a playbook file: the mapping of a step, written without
\* depends_on when the step has none, and the synthesis mapping.
SourceStep(s) ==
  IF s.depends_on = {}
    THEN [name |-> s.name, capability |-> s.capability,
          prompt |-> <<"do", "{user_requirements}", "{lang}">>]
    ELSE [name |-> s.name, capability |-> s.capability,
          prompt |-> <<"do", "{user_requirements}", "{lang}">>,
          depends_on |-> s.depends_on]
SynthesisSource ==
  [prompt |-> <<"review", "{user_requirements}">>, depends_on |-> {"A"}]
PlaybookSources(lists) ==
  {[steps |-> [i \in DOMAIN l |-> SourceStep(l[i])]] : l \in lists}
  \cup
  {[steps |-> [i \in DOMAIN l |-> SourceStep(l[i])],
    synthesis |-> SynthesisSource] : l \in lists}

\* A playbook of two steps: A, and B depending on A.
ChainList ==
  << [name |-> "A", depends_on |-> {}, capability |-> CapabilityOf["A"]],
     [name |-> "B", depends_on |-> {"A"}, capability |-> CapabilityOf["B"]] >>

\* Request texts: "" and "build api".
Requests == {<<>>, <<"build", "api">>}

\* OrchestratorEngine.__init__, register_tool calls, and the playbook
\* directory: empty, or one file "pb.yaml" that the decomposer has loaded.
InitRun(sources, toolCounts) ==
  /\ \E p \in {ParsePlaybook(<<>>, "pb", src) : src \in sources}
              \cup {[heap |-> <<>>, playbook |-> None]} :
       heap = p.heap /\ cache = p.playbook
  /\ handed = <<>>
  /\ FilesUntouched
  /\ NoCallers
  /\ nTools \in toolCounts
  /\ synthesis_tool \in BOOLEAN
  /\ runs = 0 /\ request = <<>> /\ playbook = None /\ run_id = 0
  /\ ledger = <<>> /\ synthCall = None /\ run_result = None
  /\ pc = "idle"
  /\ steps = <<>> /\ remaining = <<>> /\ ready = <<>> /\ current = <<>>
  /\ step_index = 0 /\ total = 0
  /\ context = NoArtifacts /\ outcomes = <<>> /\ total_cost = 0
  /\ completed = {} /\ failed = {}
  /\ startCalls = <<>> /\ selection = <<>> /\ invocations = <<>>

\* run() up to the first test of `while remaining` in execute_all: the
\* playbook is resolved (load_playbook or find_playbook gives the cached
\* playbook or None), create_run, decompose, execute_all(steps) starts on a
\* new ExecutionState.  uuid4 gives an id no earlier run had.  The Steps
\* made by decompose are locals of the run: the scheduler reads their
\* values.
RunStart(requests, variableChoices, maxRuns) ==
  /\ pc \in {"idle", "done", "raised"}
  /\ runs < maxRuns
  /\ \E req \in requests, vs \in variableChoices, pb \in {None, cache} :
       LET d  == Decompose(heap, pb, req, vs)
           ss == StepValues(d.heap, d.ids)
       IN /\ request' = req
          /\ playbook' = pb
          /\ ledger' = CreateRun(ledger, runs + 1, req,
                                 IF pb = None THEN None ELSE Some(pb.name))
          /\ steps' = ss
          /\ remaining' = ss
          /\ total' = Len(ss)
  /\ run_id' = runs + 1
  /\ runs' = runs + 1
  /\ synthCall' = None
  /\ run_result' = None
  /\ ready' = <<>> /\ current' = <<>> /\ step_index' = 0
  /\ context' = NoArtifacts /\ outcomes' = <<>> /\ total_cost' = 0
  /\ completed' = {} /\ failed' = {}
  /\ startCalls' = <<>> /\ selection' = <<>> /\ invocations' = <<>>
  /\ pc' = "loop"
  /\ UNCHANGED <<nTools, synthesis_tool, decomposerVars, fileVars, callerVars>>

\* run() after execute_all returned: build_synthesis_step, synthesize,
\* complete_run, return result
Finish ==
  /\ pc = "returned"
  /\ runs > 0
  /\ \E answer \in SynthesisAnswers :
       LET b == IF playbook = None THEN [heap |-> heap, ids |-> <<>>]
                ELSE BuildSynthesisStep(heap, playbook, request)
           called == b.ids # <<>> /\ synthesis_tool
           res == Synthesize(State, b.ids # <<>>, synthesis_tool, answer)
       IN /\ synthCall' = IF called
                            THEN [step |-> StepValue(b.heap, b.ids[1]),
                                  context |-> context, answer |-> answer]
                            ELSE None
          /\ run_result' = res
          /\ ledger' = CompleteRun(ledger, run_id, res.success,
                                   res.total_cost, res.step_count,
                                   res.artifacts, res.summary)
  /\ pc' = "done"
  /\ UNCHANGED <<steps, nTools, remaining, ready, current, step_index,
                 total, context, outcomes, total_cost, completed, failed,
                 startCalls, selection, invocations, synthesis_tool, runs,
                 request, playbook, run_id, decomposerVars, fileVars, callerVars>>

\* One run() of an engine, on any playbook of up to MaxPlaybookSteps steps
\* (or none, or one without steps), with or without a synthesis mapping;
\* provider results without artifacts or cost.
RunLists ==
  {<<>>} \cup {l \in DistinctStepLists : Len(l) <= MaxPlaybookSteps}

InitEngine == InitRun(PlaybookSources(RunLists), {0, 1})

NextRun ==
  \/ RunStart(Requests, {None}, 1)
  \/ StartPass
  \/ BlockRemaining
  \/ Return
  \/ BeginStep
  \/ SelectRaises
  \/ NoTool(FALSE)
  \/ Execute({}, {0}, FALSE)
  \/ ExecuteRaises(FALSE)
  \/ Finish

SpecRun == InitEngine /\ [][NextRun]_vars

\* run() when create_run raises (sqlite3.Error of the INSERT: nothing in
\* create_run or run() catches it): the exception leaves run() before
\* decompose; no row is written.
CreateRunRaises(requests) ==
  /\ pc \in {"idle", "done", "raised"}
  /\ runs < 1
  /\ \E req \in requests, pb \in {None, cache} :
       /\ request' = req
       /\ playbook' = pb
  /\ run_id' = runs + 1
  /\ runs' = runs + 1
  /\ synthCall' = None
  /\ run_result' = None
  /\ steps' = <<>> /\ remaining' = <<>> /\ total' = 0
  /\ ready' = <<>> /\ current' = <<>> /\ step_index' = 0
  /\ context' = NoArtifacts /\ outcomes' = <<>> /\ total_cost' = 0
  /\ completed' = {} /\ failed' = {}
  /\ startCalls' = <<>> /\ selection' = <<>> /\ invocations' = <<>>
  /\ pc' = "raised"
  /\ UNCHANGED <<nTools, synthesis_tool, ledger, decomposerVars, fileVars, callerVars>>

\* run() when complete_run raises (sqlite3.Error of the UPDATE: nothing in
\* complete_run or run() catches it): synthesize has been called, the
\* exception leaves run() before `return result`; the row stays "running".
CompleteRunRaises ==
  /\ pc = "returned"
  /\ runs > 0
  /\ \E answer \in SynthesisAnswers :
       LET b == IF playbook = None THEN [heap |-> heap, ids |-> <<>>]
                ELSE BuildSynthesisStep(heap, playbook, request)
       IN synthCall' = IF b.ids # <<>> /\ synthesis_tool
                         THEN [step |-> StepValue(b.heap, b.ids[1]),
                               context |-> context, answer |-> answer]
                         ELSE None
  /\ run_result' = None
  /\ pc' = "raised"
  /\ UNCHANGED <<steps, nTools, remaining, ready, current, step_index,
                 total, context, outcomes, total_cost, completed, failed,
                 startCalls, selection, invocations, synthesis_tool, runs,
                 request, playbook, run_id, ledger, decomposerVars, fileVars, callerVars>>

\* One run() of an engine whose ledger may fail.
NextStore ==
  \/ RunStart(Requests, {None}, 1)
  \/ CreateRunRaises(Requests)
  \/ StartPass
  \/ BlockRemaining
  \/ Return
  \/ BeginStep
  \/ SelectRaises
  \/ NoTool(FALSE)
  \/ Execute({}, {0}, FALSE)
  \/ ExecuteRaises(FALSE)
  \/ Finish
  \/ CompleteRunRaises

SpecStore == InitEngine /\ [][NextStore]_vars

\* Calls of execute on one FileTool(base_dir) whose base directory is empty.
InitFile == InitRun({}, {0}) /\ ~ synthesis_tool

NextFile ==
  \/ ExecuteWrite
  \/ ExecuteRead
  \/ ExecuteCopy
  \/ ExecuteDelete

SpecFile == InitFile /\ [][NextFile]_vars

\* ------------------------------------------------------------------------
\* run() calls that overlap in time on one OrchestratorEngine
\* ------------------------------------------------------------------------
\* Callers are numbered in the order they enter run().  Each call has its
\* own locals (run_id, steps, the ExecutionState and step_index of its
\* execute_all); self._progress_callback is a field of the engine.  The
\* steps of a call are the names its execute_all begins, in order.
CallSteps == UNION {[1..n -> {"A", "B"}] : n \in 1..MaxCallSteps}

\* The call has neither returned nor raised.
InFlightCall(call) == call.pc \in {"running", "calling"}

\* The arguments on_step_start receives for the i-th step of caller c,
\* tagged with the run that sent them.
StartEvent(c, i) ==
  [run |-> c, step_name |-> calls[c].steps[i], index |-> i,
   total |-> Len(calls[c].steps)]

\* run(request, progress_callback=cb): self._progress_callback =
\* progress_callback, where the caller passes its own callable or None;
\* then the playbook is resolved and decomposed into the steps of the run.
RunEnter ==
  /\ Len(calls) < MaxCallers
  /\ \E s \in CallSteps, own \in BOOLEAN :
       LET c == Len(calls) + 1
           overlaps == \E o \in DOMAIN calls : InFlightCall(calls[o])
       IN /\ calls' = Append(
               [o \in DOMAIN calls |->
                  IF InFlightCall(calls[o])
                    THEN [calls[o] EXCEPT !.overlapped = TRUE]
                    ELSE calls[o]],
               [pc |-> "running", steps |-> s, step_index |-> 0,
                callback |-> own, overlapped |-> overlaps])
          /\ progress_callback' = IF own THEN c ELSE 0
          /\ delivered' = Append(delivered, <<>>)
  /\ UNCHANGED <<steps, nTools, pc, remaining, ready, current, step_index,
                 total, context, outcomes, total_cost, completed, failed,
                 startCalls, selection, invocations, runVars,
                 decomposerVars, fileVars>>

\* execute_all of caller c begins its next step: step_index += 1, then
\* _on_step_start tests `if self._progress_callback:`; when the field is
\* None the step is executed without any call.
OnStepStartTest ==
  \E c \in DOMAIN calls :
    /\ calls[c].pc = "running"
    /\ calls[c].step_index < Len(calls[c].steps)
    /\ calls' = [calls EXCEPT ![c].step_index = @ + 1,
                              ![c].pc = IF progress_callback = 0
                                          THEN "running" ELSE "calling"]
    /\ UNCHANGED <<progress_callback, delivered>>
    /\ UNCHANGED <<steps, nTools, pc, remaining, ready, current, step_index,
                   total, context, outcomes, total_cost, completed, failed,
                   startCalls, selection, invocations, runVars,
                   decomposerVars, fileVars>>

\* _on_step_start reads the field again and calls what it holds:
\* self._progress_callback(step_name, index, total).  Calling None raises
\* TypeError, which nothing between _on_step_start and run() catches.
OnStepStartCall ==
  \E c \in DOMAIN calls :
    /\ calls[c].pc = "calling"
    /\ IF progress_callback = 0
         THEN /\ calls' = [calls EXCEPT ![c].pc = "raised"]
              /\ UNCHANGED delivered
         ELSE /\ calls' = [calls EXCEPT ![c].pc = "running"]
              /\ delivered' =
                   [delivered EXCEPT ![progress_callback] =
                      Append(@, StartEvent(c, calls[c].step_index))]
    /\ UNCHANGED progress_callback
    /\ UNCHANGED <<steps, nTools, pc, remaining, ready, current, step_index,
                   total, context, outcomes, total_cost, completed, failed,
                   startCalls, selection, invocations, runVars,
                   decomposerVars, fileVars>>

\* execute_all has begun every step; run() synthesizes, persists and
\* returns.  The field keeps the callback of the last caller to enter.
RunReturn ==
  \E c \in DOMAIN calls :
    /\ calls[c].pc = "running"
    /\ calls[c].step_index = Len(calls[c].steps)
    /\ calls' = [calls EXCEPT ![c].pc = "done"]
    /\ UNCHANGED <<progress_callback, delivered>>
    /\ UNCHANGED <<steps, nTools, pc, remaining, ready, current, step_index,
                   total, context, outcomes, total_cost, completed, failed,
                   startCalls, selection, invocations, runVars,
                   decomposerVars, fileVars>>

InitOverlap == InitRun({}, {0}) /\ ~ synthesis_tool

NextOverlap ==
  \/ RunEnter
  \/ OnStepStartTest
  \/ OnStepStartCall
  \/ RunReturn

SpecOverlap == InitOverlap /\ [][NextOverlap]_vars

\* One run() on the playbook of ChainList (or on none), with provider
\* results that carry artifacts under SummaryKeys and costs.
InitSummary == InitRun(PlaybookSources({ChainList}), {1})

NextSummary ==
  \/ RunStart(Requests, {None}, 1)
  \/ StartPass
  \/ BlockRemaining
  \/ Return
  \/ BeginStep
  \/ SelectRaises
  \/ NoTool(FALSE)
  \/ Execute(SummaryKeys, 0..MaxCost, FALSE)
  \/ ExecuteRaises(FALSE)
  \/ Finish

SpecSummary == InitSummary /\ [][NextSummary]_vars

\* A sequence of run() calls of one engine with an empty playbook
\* directory: every run takes the fallback step.  The providers' can_handle
\* and estimate_cost return.
LedgerRequests == {<<"build", "api">>}

InitLedger == InitRun({}, {0, 1})

NextLedger ==
  \/ RunStart(LedgerRequests, {None}, MaxLedgerRuns)
  \/ StartPass
  \/ Return
  \/ BeginStep
  \/ NoTool(FALSE)
  \/ Execute({}, {0}, FALSE)
  \/ ExecuteRaises(FALSE)
  \/ Finish

SpecLedger == InitLedger /\ [][NextLedger]_vars

\* ------------------------------------------------------------------------
\* Callers of the decomposer
\* ------------------------------------------------------------------------
schedulerVars == <<steps, nTools, pc, remaining, ready, current, step_index,
                   total, context, outcomes, total_cost, completed, failed,
                   startCalls, selection, invocations>>

\* The `variables` argument: None, or {"lang": "py"}.
VariableChoices == {None, << <<"lang", <<"py">>>> >>}

\* decompose(playbook, request, variables) called by some run or caller,
\* with the cached playbook or None
DecomposeCall ==
  /\ Len(handed) < MaxCalls
  /\ \E req \in Requests, vs \in VariableChoices, pb \in {None, cache} :
       LET d == Decompose(heap, pb, req, vs)
       IN heap' = d.heap /\ handed' = Append(handed, d.ids)
  /\ UNCHANGED <<cache, schedulerVars, runVars, fileVars,
                 callerVars>>

\* build_synthesis_step(playbook, request) called with the cached playbook
BuildSynthesisCall ==
  /\ Len(handed) < MaxCalls
  /\ cache # None
  /\ \E req \in Requests :
       LET b == BuildSynthesisStep(heap, cache, req)
       IN heap' = b.heap /\ handed' = Append(handed, b.ids)
  /\ UNCHANGED <<cache, schedulerVars, runVars, fileVars,
                 callerVars>>

\* Some step handed out has been modified by its holder.
Modified(h) ==
  \E c \in DOMAIN handed : \E i \in DOMAIN handed[c] :
    \/ h[handed[c][i]].prompt = <<"changed">>
    \/ "Z" \in h[h[handed[c][i]].depends_on].items

\* The holder of a Step that was handed out modifies it: step.prompt =
\* "changed", or step.depends_on.append("Z").  One modification is followed
\* per behaviour.
ModifyStep ==
  /\ ~ Modified(heap)
  /\ \E c \in DOMAIN handed : \E i \in DOMAIN handed[c] :
       LET id == handed[c][i]
       IN \/ heap' = [heap EXCEPT ![id].prompt = <<"changed">>]
          \/ heap' = [heap EXCEPT ![heap[id].depends_on].items = @ \cup {"Z"}]
  /\ UNCHANGED <<cache, handed, schedulerVars, runVars, fileVars,
                 callerVars>>

\* Nothing cached, or the playbook of ChainList with or without a synthesis
\* mapping.
InitCopy == InitRun(PlaybookSources({ChainList}), {0})

NextCopy ==
  \/ DecomposeCall
  \/ BuildSynthesisCall
  \/ ModifyStep

SpecCopy == InitCopy /\ [][NextCopy]_vars

\* ------------------------------------------------------------------------
\* Claims
\* ------------------------------------------------------------------------
StepNames == {steps[i].name : i \in DOMAIN steps}
DistinctNames ==
  \A i, j \in DOMAIN steps : steps[i].name = steps[j].name => i = j

\* The names a step named n waits for, over every step carrying that name.
DependsOn(n) ==
  UNION {steps[i].depends_on : i \in {j \in DOMAIN steps : steps[j].name = n}}

\* The names reachable from the set S along depends_on, in at most k hops.
RECURSIVE Closure(_, _)
Closure(S, k) ==
  IF k = 0 THEN S
  ELSE Closure(S \cup UNION {DependsOn(n) : n \in S}, k - 1)

Reach(n) == Closure(DependsOn(n), Cardinality(Names \cup DepNames))
OnCycle(n) == n \in Reach(n)
Acyclic == \A n \in StepNames : ~ OnCycle(n)

HasOutcome(n) == \E k \in DOMAIN outcomes : outcomes[k].step_name = n
AllSettled ==
  /\ \A i \in DOMAIN steps :
        /\ steps[i].name \in completed \cup failed
        /\ HasOutcome(steps[i].name)
  /\ remaining = <<>> \/ FindReady(remaining, completed, failed) = <<>>

\* Termination is stated by a variant: every step of execute_all lowers
\* Variant, which is never negative, and execute_all always has a next step
\* until it has returned.
Variant ==
  3 * Len(remaining)
    + (IF pc = "begun" THEN 2 ELSE IF pc = "loop" THEN 1 ELSE 0)

\* C1: for every step list whose depends_on graph is acyclic, whether the
\* providers succeed, report failure or raise from execute, execute_all
\* returns, and on return every step's name is in completed or in failed
\* and has a recorded outcome.
\* (Termination: each step lowers Variant and a next step always exists.)
C1_AcyclicTerminates ==
  /\ [](Acyclic =>
         /\ pc = "returned" => AllSettled
         /\ pc # "returned" => ENABLED NextBehaved)
  /\ [][Acyclic => Variant' < Variant]_vars

C1_Witness ==
  /\ pc = "returned"
  /\ Acyclic
  /\ Len(steps) = MaxSteps
  /\ \E k \in DOMAIN outcomes : outcomes[k].error = ExcText
  /\ \E k \in DOMAIN outcomes : outcomes[k].success
  /\ \E k \in DOMAIN outcomes : outcomes[k].error = BlockedError

BlockedOutcome(n) ==
  \E k \in DOMAIN outcomes :
    /\ outcomes[k].step_name = n
    /\ ~ outcomes[k].success
    /\ outcomes[k].error = BlockedError

Dispatched(step) ==
  \E k \in DOMAIN invocations : invocations[k].step = step

\* C2: for a step list with a dependency cycle, execute_all returns and
\* every step on the cycle is recorded as a failed outcome carrying the
\* blocked error.
C2_CycleStepsBlocked ==
  /\ [](pc = "returned" =>
         \A i \in DOMAIN steps :
           OnCycle(steps[i].name) =>
             /\ BlockedOutcome(steps[i].name)
             /\ steps[i].name \in failed
             /\ ~ Dispatched(steps[i]))
  /\ [](pc \notin {"returned", "raised"} => ENABLED Next)
  /\ [][Variant' < Variant]_vars

\* C2 on step lists whose names are pairwise distinct.
C2_DistinctNames_CycleStepsBlocked ==
  /\ [](DistinctNames /\ pc = "returned" =>
         \A i \in DOMAIN steps :
           OnCycle(steps[i].name) =>
             /\ BlockedOutcome(steps[i].name)
             /\ steps[i].name \in failed
             /\ ~ Dispatched(steps[i]))
  /\ [](pc \notin {"returned", "raised"} => ENABLED Next)
  /\ [][Variant' < Variant]_vars

\* A step with a dependency that has failed, or that names no step of
\* the run.
HasLostDependency(step) ==
  \E d \in step.depends_on : d \in failed \/ d \notin StepNames

\* C3: a step with a dependency that failed (directly or through blocked
\* dependents), or whose depends_on names a step that is not part of the
\* run, is never dispatched to a provider, and is recorded as a failed
\* outcome with the blocked error once execute_all returns.
C3_LostDependencyBlocks ==
  \A i \in DOMAIN steps :
    HasLostDependency(steps[i]) =>
      /\ ~ Dispatched(steps[i])
      /\ pc = "returned" => BlockedOutcome(steps[i].name)

\* C3 on step lists whose names are pairwise distinct.
C3_DistinctNames_LostDependencyBlocks ==
  DistinctNames => C3_LostDependencyBlocks

InSeq(x, s) == \E k \in DOMAIN s : s[k] = x

\* C4: a remaining step enters the ready set iff all its depends_on are in
\* completed and none is in failed when the ready set is computed; hence at
\* every call of a provider's execute all dependencies of the step are in
\* completed and none is in failed.
C4_ReadyIffDependenciesCompleted ==
  /\ [][pc = "loop" /\ pc' = "pass" =>
         \A i \in DOMAIN remaining :
           InSeq(remaining[i], ready') <=>
             /\ remaining[i].depends_on \subseteq completed
             /\ remaining[i].depends_on \cap failed = {}]_vars
  /\ [](\A k \in DOMAIN invocations :
          /\ invocations[k].step.depends_on \subseteq invocations[k].completed
          /\ invocations[k].step.depends_on \cap invocations[k].failed = {})

\* C4 on step lists whose names are pairwise distinct.
C4_DistinctNames_ReadyIffDependenciesCompleted ==
  /\ [][pc = "loop" /\ pc' = "pass" =>
         \A i \in DOMAIN remaining :
           InSeq(remaining[i], ready') <=>
             /\ remaining[i].depends_on \subseteq completed
             /\ remaining[i].depends_on \cap failed = {}]_vars
  /\ [](DistinctNames =>
         \A k \in DOMAIN invocations :
          /\ invocations[k].step.depends_on \subseteq invocations[k].completed
          /\ invocations[k].step.depends_on \cap invocations[k].failed = {})

\* C6: after every recorded outcome, and when execute_all returns,
\* total_cost is the sum of the costs of all recorded outcomes, those of
\* failed outcomes included.
C6_TotalCostIsSum == total_cost = SumCost(outcomes)

C6_Witness ==
  /\ pc = "returned"
  /\ \E k \in DOMAIN outcomes : ~ outcomes[k].success /\ outcomes[k].cost > 0
  /\ \E k \in DOMAIN outcomes : outcomes[k].success /\ outcomes[k].cost > 0
  /\ total_cost > MaxCost

CapableTools == {t \in 1..nTools : selection.can[t]}

\* C7: the provider whose execute is invoked (selection.tool) has the
\* smallest estimate_cost among the registered providers whose can_handle
\* accepts the step; among several with the smallest estimate it is the one
\* registered first; a single capable provider is chosen whatever its cost.
C7_CheapestFirstRegistered ==
  (selection # <<>> /\ CapableTools # {}) =>
    /\ selection.tool \in CapableTools
    /\ \A t \in CapableTools :
          \/ selection.est[selection.tool] < selection.est[t]
          \/ selection.est[selection.tool] = selection.est[t]
               /\ selection.tool <= t
    /\ \A t \in CapableTools : CapableTools = {t} => selection.tool = t

C7_Witness ==
  /\ selection # <<>>
  /\ nTools = MaxTools
  /\ CapableTools = 1..nTools
  /\ \A t \in 1..nTools : selection.est[t] = MaxEst
  /\ selection.tool = 1
  /\ Len(invocations) = 1

\* C8: no step-level failure escapes execute_all as an exception: when a
\* provider raises while a step is handled, execute_all still returns
\* normally, the step has a failed outcome with the exception's text and
\* its name is in failed.
C8_NoExceptionEscapes ==
  /\ pc # "raised"
  /\ \A k \in DOMAIN outcomes :
        outcomes[k].error = ExcText =>
          ~ outcomes[k].success /\ outcomes[k].step_name \in failed

\* C9: when no registered provider can handle a ready step, the step is
\* recorded at once as a failed outcome whose error names the step's
\* capability, no provider's execute is invoked, no cost is added, and the
\* scheduler goes on: every step of the run has its outcome on return.
C9_NoCapableProvider ==
  /\ [][(pc = "begun" /\ selection' # <<>>
          /\ \A t \in 1..nTools : ~ selection'.can[t]) =>
         /\ outcomes' = Append(outcomes,
               StepOutcome(current.name, FALSE, NoArtifacts, 0,
                           <<"No tool available for capability",
                             current.capability>>))
         /\ current.name \in failed'
         /\ invocations' = invocations
         /\ total_cost' = total_cost
         /\ remaining' = remaining
         /\ pc' = (IF ready = <<>> THEN "loop" ELSE "pass")]_vars
  /\ [](pc = "returned" => Len(outcomes) = Len(steps))

C9_Witness ==
  /\ pc = "returned"
  /\ nTools = MaxTools
  /\ Len(outcomes) = MaxSelectSteps
  /\ outcomes[1].error = <<"No tool available for capability", "general">>
  /\ outcomes[MaxSelectSteps].success
  /\ outcomes[MaxSelectSteps].step_name # outcomes[1].step_name

\* The outcomes recorded before invocation inv as successes of a step
\* named dep.
DependencyOutcomes(inv, dep) ==
  {j \in 1..inv.recorded :
     outcomes[j].step_name = dep /\ outcomes[j].success}

\* The successful outcomes recorded before invocation inv that carry key.
Writers(inv, key) ==
  {j \in 1..inv.recorded :
     outcomes[j].success /\ key \in DOMAIN outcomes[j].artifacts}

LastWriter(inv, key) ==
  CHOOSE j \in Writers(inv, key) : \A j2 \in Writers(inv, key) : j2 <= j

\* The scenario of C10: A and B without dependencies, C depending on both.
ScenarioABC ==
  steps = << [name |-> "A", depends_on |-> {}, capability |-> CapabilityOf["A"]],
             [name |-> "B", depends_on |-> {}, capability |-> CapabilityOf["B"]],
             [name |-> "C", depends_on |-> {"A", "B"},
              capability |-> CapabilityOf["C"]] >>

AllSucceeded ==
  /\ pc = "returned"
  /\ \A k \in DOMAIN outcomes : outcomes[k].success

\* C10 as claimed: when a step's provider is invoked, the context it
\* receives contains the artifacts produced by every one of the step's
\* dependencies; in the scenario with all providers succeeding, C observes
\* A's and B's artifacts, 3 outcomes are recorded and failed is empty.
C10_ContextHoldsDependencyArtifacts ==
  /\ \A k \in DOMAIN invocations :
       \A dep \in invocations[k].step.depends_on :
         \A j \in DependencyOutcomes(invocations[k], dep) :
           \A key \in DOMAIN outcomes[j].artifacts :
             /\ key \in DOMAIN invocations[k].context
             /\ invocations[k].context[key] = outcomes[j].artifacts[key]
  /\ (ScenarioABC /\ AllSucceeded) =>
        Len(outcomes) = 3 /\ failed = {}

\* C10 as amended: the context received contains every artifact key
\* produced by each dependency of the step, and the value under a key is
\* the one written by the last successful outcome recorded with that key
\* before the call (a later writer of the same key replaces the value); in
\* the scenario with all providers succeeding, 3 outcomes are recorded,
\* failed is empty and C is called last.
C10_ContextHoldsLastWrittenArtifacts ==
  /\ \A k \in DOMAIN invocations :
       \A dep \in invocations[k].step.depends_on :
         \A j \in DependencyOutcomes(invocations[k], dep) :
           \A key \in DOMAIN outcomes[j].artifacts :
             /\ key \in DOMAIN invocations[k].context
             /\ invocations[k].context[key] =
                  outcomes[LastWriter(invocations[k], key)].artifacts[key]
  /\ (ScenarioABC /\ AllSucceeded) =>
        /\ Len(outcomes) = 3 /\ failed = {}
        /\ invocations[3].step.name = "C"
        /\ invocations[3].recorded = 2

C10_Witness ==
  /\ ScenarioABC /\ AllSucceeded
  /\ DOMAIN outcomes[1].artifacts = {"k1"}
  /\ DOMAIN outcomes[2].artifacts = {"k2"}
  /\ invocations[3].context = [key \in {"k1", "k2"} |->
                                 IF key = "k1" THEN 1 ELSE 2]

\* C5 on step lists whose names are pairwise distinct.
C5_DistinctNames_CompletedFailedDisjoint ==
  DistinctNames => completed \cap failed = {}

\* C5: in every reachable state of a run, on any step list the scheduler
\* accepts, no step name is both in completed and in failed.
C5_CompletedFailedDisjoint == completed \cap failed = {}

\* ------------------------------------------------------------------------
\* C11
\* ------------------------------------------------------------------------
\* A failed outcome recorded so far carries value v under key.  A provider
\* result carries the index of its step as the value of every artifact, so
\* the values of different steps differ.
FailedArtifact(key, v) ==
  \E i \in 1..Len(outcomes) :
    /\ ~ outcomes[i].success
    /\ key \in DOMAIN outcomes[i].artifacts
    /\ outcomes[i].artifacts[key] = v

\* C11: context and completed change only in a step of the scheduler that
\* records a successful outcome (recording a failed or blocked outcome
\* leaves both unchanged); no artifact carried by a failed outcome is ever
\* in the context, neither in the context a later provider is called with
\* nor in the final artifact map.
C11_OnlySuccessChangesContext ==
  /\ [][\/ context' = context /\ completed' = completed
        \/ /\ Len(outcomes') = Len(outcomes) + 1
           /\ outcomes'[Len(outcomes')].success]_vars
  /\ [](\A key \in DOMAIN context : ~ FailedArtifact(key, context[key]))
  /\ [](\A k \in DOMAIN invocations :
          \A key \in DOMAIN invocations[k].context :
            ~ FailedArtifact(key, invocations[k].context[key]))

\* A failed step carried an artifact, a later step ran and succeeded, and
\* the run has returned.
C11_Witness ==
  /\ pc = "returned"
  /\ \E i \in 1..Len(outcomes) :
       /\ ~ outcomes[i].success
       /\ outcomes[i].artifacts # NoArtifacts
       /\ \E j \in (i+1)..Len(outcomes) :
            outcomes[j].success /\ outcomes[j].artifacts # NoArtifacts
       /\ \E k \in DOMAIN invocations : invocations[k].recorded >= i

\* ------------------------------------------------------------------------
\* C12, C13
\* ------------------------------------------------------------------------
\* C12: on_step_start is called exactly once for each step that begins:
\* the k-th step begun appends the call (its name, k, number of steps of
\* the run), k counting from 1; at the call the outcomes of the k-1 steps
\* begun before are recorded, and the provider of the step is selected and
\* executed only after it.
C12_CallbackOncePerStepBegun ==
  /\ [](Len(startCalls) = step_index)
  /\ [][step_index' # step_index =>
          /\ step_index' = step_index + 1
          /\ startCalls' = Append(startCalls,
                             <<current'.name, step_index + 1, Len(steps)>>)
          /\ Len(outcomes) = step_index
          /\ outcomes' = outcomes /\ invocations' = invocations
          /\ selection' = <<>> /\ pc' = "begun"]_vars
  /\ [][startCalls' # startCalls => step_index' # step_index]_vars
  /\ [][(invocations' # invocations \/ selection' # selection
           \/ (Len(outcomes') = Len(outcomes) + 1 /\ pc = "begun")) =>
          /\ pc = "begun"
          /\ startCalls' = startCalls
          /\ startCalls[Len(startCalls)] =
               <<current.name, Len(outcomes) + 1, Len(steps)>>]_vars

\* A run of three steps has returned after three calls.
C12_Witness ==
  /\ pc = "returned"
  /\ Len(startCalls) = 3
  /\ startCalls[3][2] = 3 /\ startCalls[3][3] = 3

\* C13: for every failed outcome recorded, on_step_start was called with
\* the name of its step.
C13_CallbackForEveryFailure ==
  \A i \in 1..Len(outcomes) :
    ~ outcomes[i].success =>
      \E k \in 1..Len(startCalls) : startCalls[k][1] = outcomes[i].step_name

\* C13 as amended: the i-th outcome recorded, when it is a failure of a
\* step that began (no provider, a failed result, an exception), follows
\* the i-th call of on_step_start, made with the name of its step; an
\* outcome recorded as blocked belongs to a step that never began and has
\* no call of its own.
C13_CallbackForEveryStepBegunThatFails ==
  \A i \in 1..Len(outcomes) :
    IF outcomes[i].error = BlockedError
      THEN i > Len(startCalls)
      ELSE /\ i <= Len(startCalls)
           /\ startCalls[i] = <<outcomes[i].step_name, i, Len(steps)>>

\* A step began and failed, another was recorded as blocked.
C13_Witness ==
  /\ pc = "returned"
  /\ \E i, j \in 1..Len(outcomes) :
       /\ ~ outcomes[i].success /\ outcomes[i].error # BlockedError
       /\ outcomes[j].error = BlockedError

\* ------------------------------------------------------------------------
\* C14
\* ------------------------------------------------------------------------
\* The names of the outcomes recorded as failures, blocked ones included.
RecordedFailed ==
  {outcomes[i].step_name :
     i \in {j \in 1..Len(outcomes) : ~ outcomes[j].success}}

OneSyntheticStep ==
  /\ Len(steps) = 1
  /\ steps[1].name = "execute"
  /\ steps[1].capability = "general"
  /\ steps[1].output = "result"
  /\ steps[1].depends_on = {}

\* The run has returned after executing exactly the step of the list: one
\* call of on_step_start, one outcome, and a result built from it.
RanExactlyThisStep ==
  /\ startCalls = << <<steps[1].name, 1, 1>> >>
  /\ Len(outcomes) = 1 /\ outcomes[1].step_name = steps[1].name
  /\ \A k \in DOMAIN invocations : invocations[k].step = steps[1]
  /\ run_result.step_count = 1
  /\ run_result.success <=> outcomes[1].success
  /\ run_result.artifacts = context
  /\ run_result.total_cost = total_cost
  /\ run_result.synthesis_output = None

\* C15: in a run whose request resolves to no playbook, decompose returns
\* exactly one synthetic step whose prompt is the request text verbatim,
\* and the run executes exactly this step and returns a result.
C15_FallbackPromptIsRequest ==
  (runs > 0 /\ playbook = None) =>
    /\ OneSyntheticStep
    /\ steps[1].prompt = request
    /\ pc = "done" => RanExactlyThisStep

\* C15 as amended: the prompt is the request text verbatim when the request
\* is not empty, and the fixed text "Please help with the following task."
\* when it is empty.
C15_FallbackPromptIsRequestOrDefault ==
  (runs > 0 /\ playbook = None) =>
    /\ OneSyntheticStep
    /\ steps[1].prompt = (IF request = <<>> THEN DefaultPrompt ELSE request)
    /\ pc = "done" => RanExactlyThisStep

\* A run with an empty request and no playbook has returned.
C15_Witness ==
  /\ pc = "done" /\ playbook = None /\ request = <<>>
  /\ steps[1].prompt = DefaultPrompt
  /\ Len(invocations) = 1

\* ------------------------------------------------------------------------
\* C16
\* ------------------------------------------------------------------------
\* C16 for the runs that resolve no playbook or a playbook with steps.
C16_PlaybookWithSteps_AtLeastOneStep ==
  (runs > 0 /\ (playbook = None \/ playbook.steps # <<>>)) =>
    Len(steps) >= 1

\* C16: in every run, whatever playbook is resolved, the step list that
\* decompose hands to the scheduler contains at least one step.
C16_AtLeastOneStep == runs > 0 => Len(steps) >= 1

\* ------------------------------------------------------------------------
\* C17
\* ------------------------------------------------------------------------
\* What the cached playbook holds in heap h: its step templates, and its
\* synthesis mapping with the items of the list in it.
Templates(h) ==
  IF cache = None THEN <<>>
  ELSE [steps |-> StepValues(h, cache.steps),
        synthesis |->
          IF cache.synthesis = None THEN None
          ELSE LET d == h[cache.synthesis[1]].entries
               IN Some([d EXCEPT !.depends_on = h[@].items])]

\* The steps some call returned have another value in heap h2 than in h1.
Changed(c, h1, h2) == StepValues(h2, handed[c]) # StepValues(h1, handed[c])

\* C17: no step of the model changes the cached playbook: every template
\* keeps its prompt, path, content and depends_on, and the synthesis
\* mapping its entries.  A decompose or build_synthesis_step call only
\* creates objects, it leaves every object that exists as it is; a step
\* that modifies a Step returned by one call changes no Step returned by
\* another call.
C17_TemplatesNeverModified ==
  /\ [][cache' = cache /\ Templates(heap') = Templates(heap)]_vars
  /\ [][handed' # handed => SubSeq(heap', 1, Len(heap)) = heap]_vars
  /\ [][\A c1, c2 \in DOMAIN handed :
          (Changed(c1, heap, heap') /\ Changed(c2, heap, heap')) => c1 = c2]_vars

\* Two calls on the cached playbook returned steps, and a Step of the
\* first was modified in its depends_on list.
C17_Witness ==
  /\ Len(handed) = 2
  /\ cache # None /\ cache.synthesis # None
  /\ handed[1] # <<>> /\ handed[2] # <<>>
  /\ \E i \in DOMAIN handed[1] :
       "Z" \in heap[heap[handed[1][i]].depends_on].items

\* ------------------------------------------------------------------------
\* C18
\* ------------------------------------------------------------------------
\* The synthesis provider was called by this run and did not succeed.
SynthesisFailed ==
  /\ synthCall # None
  /\ synthCall.answer.kind \in {"failed", "raised"}

\* C18: when the synthesis provider returns a failed result or raises,
\* run() still returns; the result has no narrative, and its success,
\* failed_steps, total_cost, step_count and artifacts (and its summary) are
\* those synthesize gives for the same state with no synthesis step; the
\* ledger status follows the steps alone.
C18_SynthesisFailureIsNoNarrative ==
  (pc = "done" /\ SynthesisFailed) =>
    LET without == Synthesize(State, FALSE, synthesis_tool, synthCall.answer)
    IN /\ run_result.synthesis_output = None
       /\ run_result.success = without.success
       /\ run_result.success <=> (failed = {})
       /\ run_result.failed_steps = without.failed_steps
       /\ run_result.total_cost = without.total_cost
       /\ run_result.step_count = without.step_count
       /\ run_result.artifacts = without.artifacts
       /\ run_result.summary = without.summary
       /\ \A i \in DOMAIN run_result.summary :
            run_result.summary[i].line # "narrative"
       /\ ledger[Len(ledger)].status =
            (IF failed = {} THEN "completed" ELSE "failed")

\* A run whose two steps completed, leaving artifacts, has returned after
\* its synthesis provider failed or raised.
C18_Witness ==
  /\ pc = "done" /\ SynthesisFailed
  /\ run_result.success
  /\ Len(outcomes) = 2
  /\ context # NoArtifacts

\* ------------------------------------------------------------------------
\* C19
\* ------------------------------------------------------------------------
\* The lines of the summary returned that begin as `text`.
Lines(text) ==
  {i \in DOMAIN run_result.summary : run_result.summary[i].line = text}
PublicKeys == {k \in DOMAIN context : ~ IsInternal(k)}

\* The summary names the failed steps, states the total cost to four
\* decimals (the nearest multiple of $0.0001, a half rounded up), and lists
\* the keys that are not internal in increasing order, when there are any.
NamesCostAndKeys ==
  /\ failed # {} =>
       \E i \in Lines("WARNING: n step(s) failed: names") :
         LET names == run_result.summary[i].names
         IN /\ {names[j] : j \in DOMAIN names} = failed
            /\ Len(names) = Cardinality(failed)
            /\ \A j \in 1..(Len(names) - 1) :
                 NameCode[names[j]] < NameCode[names[j + 1]]
  /\ \E i \in Lines("Total cost: $amount") :
       2 * run_result.summary[i].amount - total_cost \in {0, 1}
  /\ PublicKeys # {} =>
       \E i \in Lines("Artifacts: keys") :
         LET keys == run_result.summary[i].keys
         IN /\ {keys[j] : j \in DOMAIN keys} = PublicKeys
            /\ \A j \in 1..(Len(keys) - 1) : StrLess(keys[j], keys[j + 1])
  /\ PublicKeys = {} => Lines("Artifacts: keys") = {}
  /\ run_result.artifacts = context

\* C19: the summary of every run returned states the count of completed
\* steps and the count of failed steps (none failed being stated by "All n
\* steps completed"), names the failed steps, states the total cost and
\* lists the sorted keys that are not internal, which stay in the artifact
\* map.
C19_SummaryStatesBothCounts ==
  pc = "done" =>
    /\ \E i \in Lines("All n steps completed successfully.") :
         run_result.summary[i].n = Cardinality(completed)
    /\ \/ failed = {}
       \/ \E i \in Lines("WARNING: n step(s) failed: names") :
            run_result.summary[i].n = Cardinality(failed)
    /\ NamesCostAndKeys

\* C19 as amended: the summary states one count: when a step failed, the
\* count of failed names (and no count of completed steps); when none
\* failed, the count of completed names.
C19_SummaryStatesOneCount ==
  pc = "done" =>
    /\ failed # {} =>
         /\ \E i \in Lines("WARNING: n step(s) failed: names") :
              run_result.summary[i].n = Cardinality(failed)
         /\ Lines("All n steps completed successfully.") = {}
    /\ failed = {} =>
         /\ \E i \in Lines("All n steps completed successfully.") :
              run_result.summary[i].n = Cardinality(completed)
         /\ Lines("WARNING: n step(s) failed: names") = {}
    /\ NamesCostAndKeys

\* A run has returned with a step completed and a step failed, an odd
\* total cost, and an internal key and two other keys in its artifacts.
C19_Witness ==
  /\ pc = "done"
  /\ completed # {} /\ failed # {}
  /\ total_cost = 1
  /\ DOMAIN context = SummaryKeys
  /\ DOMAIN run_result.artifacts = SummaryKeys

\* ------------------------------------------------------------------------
\* C20
\* ------------------------------------------------------------------------
\* The ledger row of the current run.
RunRow == ledger[CHOOSE i \in DOMAIN ledger : ledger[i].run_id = run_id]

\* Between create_run and complete_run the row of the run exists with
\* status "running", from before the first step on; when run() has
\* returned, the row carries the status, total cost and step count of the
\* result.
RowFollowsRun ==
  /\ runs > 0 => \E i \in DOMAIN ledger : ledger[i].run_id = run_id
  /\ pc \in {"loop", "pass", "begun", "returned"} =>
       /\ RunRow.status = "running"
       /\ ~ RunRow.finished
  /\ pc = "done" =>
       /\ RunRow.status =
            (IF run_result.success THEN "completed" ELSE "failed")
       /\ RunRow.finished
       /\ RunRow.total_cost = run_result.total_cost
       /\ RunRow.step_count = run_result.step_count

\* C20: every run() creates its ledger record with status "running" before
\* any step executes and finalizes it when the run ends, with the status,
\* total cost and step count of the result; history() returns one entry per
\* run performed.
C20_HistoryHasOneEntryPerRun ==
  /\ RowFollowsRun
  /\ Len(History(ledger, HistoryLimit)) = runs

\* C20 as amended: history() returns the entries of the HistoryLimit (10)
\* most recent runs, or of all runs when there are fewer, newest first.
C20_HistoryHasTheNewestRuns ==
  /\ RowFollowsRun
  /\ LET h == History(ledger, HistoryLimit)
     IN /\ Len(h) = (IF runs < HistoryLimit THEN runs ELSE HistoryLimit)
        /\ \A i \in DOMAIN h : h[i].run_id = runs + 1 - i
        /\ \A i \in DOMAIN h :
             i > 1 \/ pc # "done" \/
               /\ h[i].status = RunRow.status
               /\ h[i].cost = run_result.total_cost
               /\ h[i].steps = run_result.step_count

\* The eleventh run has returned; history() has ten entries, of runs that
\* completed and of runs that failed.
C20_Witness ==
  /\ pc = "done" /\ runs = 11
  /\ Len(ledger) = 11
  /\ Len(History(ledger, HistoryLimit)) = 10
  /\ \E i, j \in DOMAIN ledger :
       ledger[i].status = "completed" /\ ledger[j].status = "failed"

\* ------------------------------------------------------------------------
\* C21
\* ------------------------------------------------------------------------
\* What complete_run was called with, read back: the record a reader
\* should get for the run that has returned.
Stringified(artifacts) == [k \in DOMAIN artifacts |-> Str(artifacts[k])]

ReadsBack(rec) ==
  /\ rec.status = (IF run_result.success THEN "completed" ELSE "failed")
  /\ rec.total_cost = run_result.total_cost
  /\ rec.step_count = run_result.step_count
  /\ rec.summary = run_result.summary
  /\ rec.artifacts = Stringified(run_result.artifacts)

\* C21: after complete_run on the row of the run, get_run and list_runs
\* give a record with the status, total_cost, step_count and summary that
\* were passed, and with the artifacts that were passed, every value
\* stringified.
C21_RecordReadsBackWhatWasCompleted ==
  pc = "done" =>
    /\ GetRun(ledger, run_id) # None
    /\ ReadsBack(GetRun(ledger, run_id)[1])
    /\ ReadsBack(ListRuns(ledger, HistoryLimit)[1])

\* Apart from the artifacts the record does read back what was passed; the
\* artifacts are stored stringified in the row, and read back empty.
C21_RecordReadsBackAllButArtifacts ==
  pc = "done" =>
    LET rec == GetRun(ledger, run_id)[1]
    IN /\ rec.status = (IF run_result.success THEN "completed" ELSE "failed")
       /\ rec.total_cost = run_result.total_cost
       /\ rec.step_count = run_result.step_count
       /\ rec.summary = run_result.summary
       /\ RunRow.artifacts = Some(Stringified(run_result.artifacts))
       /\ rec.artifacts = NoArtifacts

\* ------------------------------------------------------------------------
\* C22
\* ------------------------------------------------------------------------
\* C22: a failure of the ledger never changes the outcome reported for a
\* run: a call of run() reaches execute_all whether or not create_run
\* fails, and once execute_all has returned with every step successful
\* run() returns a result with success = true whether or not complete_run
\* fails.
C22_LedgerFailureKeepsOutcome ==
  /\ [][runs' = runs + 1 => pc' = "loop"]_vars
  /\ [][(pc = "returned" /\ runs > 0 /\ failed = {}) =>
          (pc' = "done" /\ run_result' # None /\ run_result'.success)]_vars

\* With a ledger that does not fail the same holds.
C22_WorkingLedgerKeepsOutcome ==
  [][(ledger' # ledger) =>
       /\ runs' = runs + 1 => pc' = "loop"
       /\ (pc = "returned" /\ runs > 0 /\ failed = {}) =>
            (pc' = "done" /\ run_result' # None /\ run_result'.success)]_vars

\* ------------------------------------------------------------------------
\* C23
\* ------------------------------------------------------------------------
Range(f) == {f[i] : i \in DOMAIN f}

\* The outcome recorded for a step was made without a capable provider.
LacksProvider(o) ==
  \E s \in Range(steps) :
    s.name = o.step_name /\ o.error = NoToolError(s.capability)

OutcomesOf(capabilities) ==
  {outcomes[i] : i \in {j \in DOMAIN outcomes :
     \E s \in Range(steps) :
       s.name = outcomes[j].step_name /\ s.capability \in capabilities}}

\* C23: after start() on an engine with no proxy wired, a step with a
\* script capability and a step with a file capability that are dispatched
\* find a capable provider, and a step that only an LLM provider could
\* handle fails for lack of a capable provider.
C23_BuiltinsServeScriptAndFile ==
  ~ synthesis_tool =>
    /\ \A o \in OutcomesOf(ScriptCapabilities) : ~ LacksProvider(o)
    /\ \A o \in OutcomesOf(FileCapabilities) : ~ LacksProvider(o)
    /\ \A o \in OutcomesOf(LLMCapabilities) :
         o.error # BlockedError => LacksProvider(o)

\* What start() does give: file steps find a provider, LLM steps find one
\* exactly when a proxy is wired, script steps never find one.
C23_BuiltinsServeFileOnly ==
  /\ \A o \in OutcomesOf(FileCapabilities) : ~ LacksProvider(o)
  /\ \A o \in OutcomesOf(LLMCapabilities) :
       o.error # BlockedError => (LacksProvider(o) <=> ~ synthesis_tool)
  /\ \A o \in OutcomesOf(ScriptCapabilities) :
       o.error # BlockedError => LacksProvider(o)

\* ------------------------------------------------------------------------
\* C24
\* ------------------------------------------------------------------------
\* The outcome recorded for an invocation, and the outcomes of the steps
\* that depend on its step.
OutcomeOf(inv) == outcomes[inv.recorded + 1]

DependentOutcomes(inv) ==
  {o \in Range(outcomes) :
     \E s \in Range(steps) :
       s.name = o.step_name /\ inv.step.name \in s.depends_on}

FailsItsStep(inv) ==
  /\ ~ OutcomeOf(inv).success
  /\ OutcomeOf(inv).error # NoError
  /\ inv.step.name \in failed
  /\ \A o \in DependentOutcomes(inv) : o.error = BlockedError

\* C24: when the completion call behind an LLM step fails (the proxy
\* raises, or reports that every model of its chain failed), the step's
\* outcome is a failure that carries an error text, the step is in
\* `failed`, and the steps that depend on it are recorded as blocked.
C24_FailedCompletionFailsStep ==
  \A i \in DOMAIN invocations :
    CompletionFailed(invocations[i].completion)
      => FailsItsStep(invocations[i])

\* It holds of a proxy that raises; a reported failure of every model is
\* turned into a successful outcome with an empty response.
C24_RaisingCompletionFailsStep ==
  \A i \in DOMAIN invocations :
    /\ invocations[i].completion.raised => FailsItsStep(invocations[i])
    /\ (~ invocations[i].completion.raised
        /\ ~ invocations[i].completion.result.success)
         => /\ OutcomeOf(invocations[i]).success
            /\ OutcomeOf(invocations[i]).artifacts
                 = [k \in {invocations[i].step.name} |-> <<>>]

\* ------------------------------------------------------------------------
\* C25
\* ------------------------------------------------------------------------
\* The last FileTool call was the given operation.
LastWas(log, operation) ==
  log.last # None /\ log.last[1].call.operation = operation

\* A read that follows a write of the same path succeeds with the written
\* content.
ReadFollowsWrite ==
  (/\ LastWas(fileLog, "write")
   /\ LastWas(fileLog', "read")
   /\ fileLog'.last[1].call.path = fileLog.last[1].call.path)
    => /\ fileLog'.last[1].status = "ok"
       /\ fileLog'.last[1].output = fileLog.last[1].call.content

\* A read of a path that no write or copy put in place, or that was deleted
\* since, does not succeed.
ReadOfMissingFails ==
  (/\ LastWas(fileLog, "read")
   /\ Resolve(fileLog.last[1].call.path) \notin fileLog.written)
    => fileLog.last[1].status # "ok"

\* C25: every write of a content to a relative path succeeds, whatever
\* directories existed before, and a read of that path right after it
\* succeeds and returns exactly the content written; a read of a path that
\* was never written, or was deleted, fails.
C25_WriteThenReadRoundTrips ==
  /\ [](LastWas(fileLog, "write") => fileLog.last[1].status = "ok")
  /\ [][ReadFollowsWrite]_vars
  /\ []ReadOfMissingFails

\* The round trip does hold when the write succeeds and the content has no
\* carriage return.
C25_RoundTripWithoutCarriageReturn ==
  /\ [][(/\ LastWas(fileLog, "write")
         /\ fileLog.last[1].status = "ok"
         /\ \A i \in DOMAIN fileLog.last[1].call.content :
              fileLog.last[1].call.content[i] # "CR")
         => ReadFollowsWrite]_vars
  /\ []ReadOfMissingFails

\* ------------------------------------------------------------------------
\* C26
\* ------------------------------------------------------------------------
\* A location inside the base directory of the tool.
Inside(path) ==
  Len(path) >= Len(BaseDir) /\ SubSeq(path, 1, Len(BaseDir)) = BaseDir

\* The locations a call names, resolved.
Touched(call) ==
  IF call.operation = "copy"
    THEN {Resolve(call.src), Resolve(call.dst)}
    ELSE {Resolve(call.path)}

\* C26: every file there is was put inside the base directory, and every
\* operation that succeeded on relative paths read, created, overwrote or
\* deleted only locations inside the base directory.
C26_OperationsStayInsideBase ==
  /\ \A path \in DOMAIN disk.files : Inside(path)
  /\ (fileLog.last # None /\ fileLog.last[1].status = "ok")
       => \A path \in Touched(fileLog.last[1].call) : Inside(path)

\* Paths without a ".." component do stay inside.
C26_PathsWithoutParentStepsStayInside ==
  (/\ fileLog.last # None
   /\ \A path \in {fileLog.last[1].call[k] :
                     k \in DOMAIN fileLog.last[1].call \ {"operation", "content"}} :
        \A i \in DOMAIN path : path[i] # "..")
    => \A path \in Touched(fileLog.last[1].call) : Inside(path)

\* ------------------------------------------------------------------------
\* C27
\* ------------------------------------------------------------------------
\* How many entries of a sequence satisfy a test.
Count(seq, Test(_)) == Cardinality({i \in DOMAIN seq : Test(seq[i])})

\* C27: in one execute_all call no step has more outcomes recorded, or
\* more calls of a provider's execute, than the list has steps like it; on
\* return every step has its outcome, so there are as many outcomes as
\* steps, and that number is the step_count of the result synthesized.
C27_OneOutcomePerStep ==
  /\ \A n \in Names :
       Count(outcomes, LAMBDA o : o.step_name = n)
         <= Count(steps, LAMBDA s : s.name = n)
  /\ \A s \in Range(steps) :
       Count(invocations, LAMBDA inv : inv.step = s)
         <= Count(steps, LAMBDA t : t = s)
  /\ Len(invocations) <= Len(outcomes) /\ Len(outcomes) <= Len(steps)
  /\ pc = "returned" =>
       /\ Len(outcomes) = Len(steps)
       /\ \A n \in Names :
            Count(outcomes, LAMBDA o : o.step_name = n)
              = Count(steps, LAMBDA s : s.name = n)
       /\ \A answer \in SynthesisAnswers :
            Synthesize(State, FALSE, FALSE, answer).step_count = Len(steps)

\* execute_all has returned from a list of MaxSteps steps of which one
\* failed in its provider, one was blocked and one completed.
C27_Witness ==
  /\ pc = "returned"
  /\ Len(steps) = MaxSteps
  /\ \E i, j, k \in DOMAIN outcomes :
       /\ outcomes[i].error = ToolError
       /\ outcomes[j].error = BlockedError
       /\ outcomes[k].success
  /\ Len(invocations) = 2

\* ------------------------------------------------------------------------
\* C28
\* ------------------------------------------------------------------------
\* Every step carrying the name has completed successfully.
CompletedSuccessfully(n) ==
  /\ n \in StepNames
  /\ Count(outcomes, LAMBDA o : o.step_name = n /\ o.success)
       = Count(steps, LAMBDA s : s.name = n)

\* The direct and transitive dependencies of the step have all completed
\* successfully.
DependenciesCompleted(step) ==
  \A d \in Closure(step.depends_on, Cardinality(Names \cup DepNames)) :
    CompletedSuccessfully(d)

\* The scheduler has begun as many steps of the name as there are steps of
\* the name whose dependencies all completed successfully.
Begun(n) ==
  Count(startCalls, LAMBDA c : c[1] = n)
    >= Count(steps, LAMBDA s : s.name = n /\ DependenciesCompleted(s))

\* C28: a failure never stops the steps that do not depend on it: when
\* execute_all has ended, by a return or by an exception, every step whose
\* direct and transitive dependencies all completed successfully has been
\* dispatched, whatever failed or was blocked besides.
C28_IndependentStepsAreDispatched ==
  pc \in {"returned", "raised"} => \A n \in StepNames : Begun(n)

\* It holds of the calls of execute_all that return.
C28_OnReturn_IndependentStepsAreDispatched ==
  pc = "returned" => \A n \in StepNames : Begun(n)

\* ------------------------------------------------------------------------
\* C29: dispatch passes
\* ------------------------------------------------------------------------
\* s is t with some elements left out, the others in the order of t.
RECURSIVE IsSubsequence(_, _)
IsSubsequence(s, t) ==
  IF s = <<>> THEN TRUE
  ELSE IF t = <<>> THEN FALSE
  ELSE IF Head(s) = Head(t) THEN IsSubsequence(Tail(s), Tail(t))
  ELSE IsSubsequence(s, Tail(t))

\* The steps begun and not yet recorded: the calls of on_step_start that no
\* outcome other than a blocked one answers.
InFlight ==
  Len(startCalls) - Count(outcomes, LAMBDA o : o.error # BlockedError)

\* The steps still listed that the test of _find_ready accepts now while
\* the pass under way does not hold them: their last dependency completed
\* during this pass.
NewlyEnabled ==
  {i \in DOMAIN remaining :
     /\ IsReady(remaining[i], completed, failed)
     /\ ~ \E j \in DOMAIN ready : ready[j] = remaining[i]}

\* on_step_start is called in this step of the run.
Starts == startCalls' # startCalls

\* C29: steps are dispatched in passes.  The ready set is computed only at
\* the head of the while loop, when the for loop of the pass before has
\* handled all its steps, and during a pass it only loses the step the for
\* loop takes; the steps of a pass are taken one at a time in declaration
\* order (the ready set is a part of `remaining`, itself a part of the step
\* list, in list order, and the step begun is its first); the outcome of
\* each step begun is recorded before the next begins; a step enabled
\* during a pass is not in the ready set and so waits for the next pass;
\* every step begun starts after a step of each name it depends on has
\* started and completed, so the starts are in a topological order.
C29_DispatchInPasses ==
  /\ [][ready' # ready =>
          \/ /\ pc = "loop" /\ ready = <<>>
             /\ ready' = FindReady(remaining, completed, failed)
          \/ /\ Starts /\ ready' = Tail(ready)]_vars
  /\ [](IsSubsequence(ready, remaining) /\ IsSubsequence(remaining, steps))
  /\ [][Starts =>
          /\ ready # <<>> /\ current' = Head(ready)
          /\ startCalls' = Append(startCalls, <<Head(ready).name,
                                               Len(startCalls) + 1, total>>)
          /\ InFlight = 0
          /\ \A d \in Head(ready).depends_on :
               /\ \E j \in DOMAIN startCalls : startCalls[j][1] = d
               /\ \E k \in DOMAIN outcomes :
                    outcomes[k].step_name = d /\ outcomes[k].success]_vars
  /\ [](InFlight \in {0, 1} /\ (InFlight = 1 <=> pc \in {"begun", "raised"}))
  /\ [][pc' = "loop" => ready' = <<>> /\ InFlight' = 0]_vars

\* A step begins while a step declared before it, enabled by an outcome of
\* this pass, is left waiting for the next pass.
C29_Witness ==
  /\ pc = "begun"
  /\ \E i \in NewlyEnabled : \E j, k \in DOMAIN steps :
       j < k /\ steps[j] = remaining[i] /\ steps[k] = current
                 /\ steps[j].depends_on # {}

\* ------------------------------------------------------------------------
\* C30: progress callbacks of overlapping run() calls
\* ------------------------------------------------------------------------
\* The start events caller c's execute_all has sent so far: one per step
\* begun, the one being sent excepted.
OwnEvents(c) ==
  LET sent == IF calls[c].pc = "calling" THEN calls[c].step_index - 1
              ELSE calls[c].step_index
  IN [i \in 1..sent |-> StartEvent(c, i)]

\* The callback caller c passed has received exactly the start events of
\* c's own run, in order.
ReceivedItsOwn(c) ==
  calls[c].callback => delivered[c] = OwnEvents(c)

\* C30: when two run() calls on one engine overlap in time, each caller's
\* progress callback receives exactly the start events of the steps of its
\* own run: none of the other run, none lost.
C30_OverlappingCallersGetTheirOwnEvents ==
  \A c \in DOMAIN calls : calls[c].overlapped => ReceivedItsOwn(c)

\* C30, for calls that do not overlap: a run() that starts after the one
\* before it has returned delivers exactly its own start events to its own
\* callback, and raises nothing.
C30_SuccessiveCallersGetTheirOwnEvents ==
  \A c \in DOMAIN calls :
    ~ calls[c].overlapped => ReceivedItsOwn(c) /\ calls[c].pc # "raised"

\* Two successive calls with callbacks have both returned after beginning
\* their steps.
C30_Witness ==
  /\ Len(calls) = 2
  /\ \A c \in DOMAIN calls :
       /\ calls[c].pc = "done" /\ ~ calls[c].overlapped
       /\ calls[c].callback /\ delivered[c] # <<>>

====
